---- MODULE Spec2Model ----
(***************************************************************************)
(* Deduplication pipeline of the agent collection scripts:                 *)
(*   IntelligentDeduplicator (src/intelligent_dedupe.py)                   *)
(*   AgentCollector          (src/collect_agents.py)                       *)
(* Strings are sequences of one-character strings, so that the regular     *)
(* expressions, the substring tests and difflib's ratio are computed on    *)
(* the characters.  A similarity ratio is a pair <<numerator, denominator>>*)
(* and thresholds are compared by cross-multiplication.                    *)
(***************************************************************************)
EXTENDS Integers, Sequences, FiniteSets, TLC

\* ------------------------------------------------------------------ bounds
MaxFiles == 3
MaxRuns == 2

\* ----------------------------------------------------------- characters
Letters == <<"a","b","c","d","e","f","g","h","i","j","k","l","m",
             "n","o","p","q","r","s","t","u","v","w","x","y","z">>
Capitals == <<"A","B","C","D","E","F","G","H","I","J","K","L","M",
              "N","O","P","Q","R","S","T","U","V","W","X","Y","Z">>
DigitChars == <<"0","1","2","3","4","5","6","7","8","9">>

\* the grave accent (code point 96), which a TLA+ string cannot hold
BACKTICK == "grave"

Range(f) == {f[i] : i \in DOMAIN f}
IndexOf(seq, c) == CHOOSE i \in DOMAIN seq : seq[i] = c

\* str.lower() on one character
LowerChar(c) == IF c \in Range(Capitals) THEN Letters[IndexOf(Capitals, c)] ELSE c
\* str.lower(): the characters of s lowered one by one, as a sequence
Lower(s) == SubSeq([i \in DOMAIN s |-> LowerChar(s[i])], 1, Len(s))

\* code point of a character, the order Python compares strings by
Ord(c) ==
    IF c \in Range(Letters) THEN 96 + IndexOf(Letters, c)
    ELSE IF c \in Range(Capitals) THEN 64 + IndexOf(Capitals, c)
    ELSE IF c \in Range(DigitChars) THEN 47 + IndexOf(DigitChars, c)
    ELSE IF c = " " THEN 32
    ELSE IF c = "-" THEN 45
    ELSE IF c = "." THEN 46
    ELSE IF c = "_" THEN 95
    ELSE IF c = BACKTICK THEN 96
    ELSE IF c = "#" THEN 35
    ELSE 0

\* the character class [-_]
IsSep(c) == c \in {"-", "_"}
\* the character class [a-z0-9]
IsAlnumLower(c) == c \in Range(Letters) \cup Range(DigitChars)

Min(a, b) == IF a < b THEN a ELSE b

\* s[:n]
Take(s, n) == SubSeq(s, 1, Min(n, Len(s)))
\* s[n:]
Drop(s, n) == SubSeq(s, n + 1, Len(s))

\* s.startswith(p)
StartsWith(s, p) == Len(p) <= Len(s) /\ SubSeq(s, 1, Len(p)) = p
\* p in s (substring test)
Contains(s, p) == \E k \in 0..(Len(s) - Len(p)) : SubSeq(s, k + 1, k + Len(p)) = p

\* str.strip(): leading and trailing blanks removed
RECURSIVE LStrip(_)
LStrip(s) == IF s # <<>> /\ Head(s) = " " THEN LStrip(Tail(s)) ELSE s
RECURSIVE RStrip(_)
RStrip(s) == IF s # <<>> /\ s[Len(s)] = " " THEN RStrip(SubSeq(s, 1, Len(s) - 1)) ELSE s
Strip(s) == RStrip(LStrip(s))

\* ------------------------------------------------- difflib.SequenceMatcher
\* length of the common run of a[i..ahi] and b[j..bhi] (1-based, inclusive)
RECURSIVE RunLen(_, _, _, _, _, _)
RunLen(a, b, i, j, ahi, bhi) ==
    IF i > ahi \/ j > bhi \/ a[i] # b[j] THEN 0
    ELSE 1 + RunLen(a, b, i + 1, j + 1, ahi, bhi)

\* find_longest_match(alo, ahi, blo, bhi): the longest matching block; of the
\* longest, the one starting earliest in a, and of those the earliest in b.
\* (None of the strings compared here reaches 200 characters, the length from
\* which SequenceMatcher's autojunk heuristic drops popular characters.)
find_longest_match(a, b, alo, ahi, blo, bhi) ==
    IF alo > ahi \/ blo > bhi THEN <<alo, blo, 0>>
    ELSE LET blocks == {<<x, y, RunLen(a, b, x, y, ahi, bhi)>> : x \in alo..ahi, y \in blo..bhi}
         IN CHOOSE m \in blocks :
                \A o \in blocks :
                    \/ m[3] > o[3]
                    \/ m[3] = o[3] /\ m[1] < o[1]
                    \/ m[3] = o[3] /\ m[1] = o[1] /\ m[2] <= o[2]

\* sum of the sizes of get_matching_blocks(): the longest block, then the
\* same on the pieces to its left and to its right
RECURSIVE MatchCount(_, _, _, _, _, _)
\* the block m and the matching blocks to its left and to its right
AroundBlock(a, b, alo, ahi, blo, bhi, m) ==
    IF m[3] = 0 THEN 0
    ELSE m[3] + MatchCount(a, b, alo, m[1] - 1, blo, m[2] - 1)
              + MatchCount(a, b, m[1] + m[3], ahi, m[2] + m[3], bhi)
MatchCount(a, b, alo, ahi, blo, bhi) ==
    IF alo > ahi \/ blo > bhi THEN 0
    ELSE AroundBlock(a, b, alo, ahi, blo, bhi, find_longest_match(a, b, alo, ahi, blo, bhi))

\* SequenceMatcher(None, a, b).ratio() = 2.0 * matches / (len(a) + len(b)),
\* and 1.0 when both are empty
ratio(a, b) ==
    IF Len(a) + Len(b) = 0 THEN <<1, 1>>
    ELSE <<2 * MatchCount(a, b, 1, Len(a), 1, Len(b)), Len(a) + Len(b)>>

\* r > num/den for a ratio r
Exceeds(r, num, den) == r[1] * den > num * r[2]

\* ------------------------------------------------ words of the patterns
PRO == <<"p","r","o">>
EXPERT == <<"e","x","p","e","r","t">>
DEVELOPER == <<"d","e","v","e","l","o","p","e","r">>
ENGINEER == <<"e","n","g","i","n","e","e","r">>
SPECIALIST == <<"s","p","e","c","i","a","l","i","s","t">>
ARCHITECT == <<"a","r","c","h","i","t","e","c","t">>
ARCHITECTURE == <<"a","r","c","h","i","t","e","c","t","u","r","e">>
TEST == <<"t","e","s","t">>
TESTER == <<"t","e","s","t","e","r">>
TESTING == <<"t","e","s","t","i","n","g">>
QA == <<"q","a">>
DEBUG == <<"d","e","b","u","g">>
DEBUGGER == <<"d","e","b","u","g","g","e","r">>
TROUBLESHOOT == <<"t","r","o","u","b","l","e","s","h","o","o","t">>
TROUBLESHOOTER == <<"t","r","o","u","b","l","e","s","h","o","o","t","e","r">>
OPTIMIZE == <<"o","p","t","i","m","i","z","e">>
OPTIMIZER == <<"o","p","t","i","m","i","z","e","r">>
PERFORMANCE == <<"p","e","r","f","o","r","m","a","n","c","e">>
ML == <<"m","l">>
MACHINE == <<"m","a","c","h","i","n","e">>
LEARNING == <<"l","e","a","r","n","i","n","g">>
AI == <<"a","i">>
ARTIFICIAL == <<"a","r","t","i","f","i","c","i","a","l">>
INTELLIGENCE == <<"i","n","t","e","l","l","i","g","e","n","c","e">>

\* content_similarity and similarity_score compare the first 500 characters
ContentPrefix == 500
\* categorize_agent reads the first 1000 characters of the content
ClassifierPrefix == 1000
\* collect_agents looks for a marker in the first 200 characters
MarkerPrefix == 200

\* ----------------------------------------- IntelligentDeduplicator: names
\* self.duplicate_patterns.  A pattern '(.+)[-_]?w$' is [grp |-> TRUE, alts |->
\* the tails w can be]; a pattern without a group is [grp |-> FALSE, ...].  A
\* tail is the sequence of its literal pieces, each preceded by '[-_]?'
\* (except the first piece of a pattern without a group).
duplicate_patterns == <<
    << [grp |-> TRUE, alts |-> {<<PRO>>}],
       [grp |-> TRUE, alts |-> {<<EXPERT>>}],
       [grp |-> TRUE, alts |-> {<<DEVELOPER>>}],
       [grp |-> TRUE, alts |-> {<<ENGINEER>>}],
       [grp |-> TRUE, alts |-> {<<SPECIALIST>>}] >>,
    << [grp |-> TRUE, alts |-> {<<ARCHITECT>>}],
       [grp |-> TRUE, alts |-> {<<ARCHITECTURE>>}] >>,
    << [grp |-> TRUE, alts |-> {<<TEST>>, <<TESTER>>, <<TESTING>>}],
       [grp |-> TRUE, alts |-> {<<QA>>}] >>,
    << [grp |-> TRUE, alts |-> {<<DEBUG>>, <<DEBUGGER>>}],
       [grp |-> TRUE, alts |-> {<<TROUBLESHOOT>>, <<TROUBLESHOOTER>>}] >>,
    << [grp |-> TRUE, alts |-> {<<OPTIMIZE>>, <<OPTIMIZER>>}],
       [grp |-> TRUE, alts |-> {<<PERFORMANCE>>}] >>,
    << [grp |-> FALSE, alts |-> {<<ML, ENGINEER>>}],
       [grp |-> FALSE, alts |-> {<<MACHINE, LEARNING, ENGINEER>>}] >>,
    << [grp |-> FALSE, alts |-> {<<AI, ENGINEER>>}],
       [grp |-> FALSE, alts |-> {<<ARTIFICIAL, INTELLIGENCE, ENGINEER>>}] >> >>

\* s is exactly the pieces of tail in order, each piece after the first
\* (and the first too when sepFirst) optionally preceded by one of - and _
RECURSIVE MatchTail(_, _, _)
MatchTail(s, tail, sepFirst) ==
    IF tail = <<>> THEN s = <<>>
    ELSE LET piece == Head(tail)
             Here(r) == StartsWith(r, piece) /\ MatchTail(Drop(r, Len(piece)), Tail(tail), TRUE)
         IN \/ Here(s)
            \/ sepFirst /\ s # <<>> /\ IsSep(Head(s)) /\ Here(Tail(s))

\* GroupLens for patterns that lack the closing '$': the tail only has to
\* start what follows group 1
GroupLens_unanchored(s, pat) ==
    {k \in 1..Len(s) : \E tail \in pat.alts, j \in k..Len(s) :
                            MatchTail(SubSeq(s, k + 1, j), tail, TRUE)}

\* the lengths group 1 of a pattern with a group can have in a match of s:
\* '(.+)' takes at least one character and the rest is one of the tails
GroupLens(s, pat) ==
    {k \in 1..Len(s) : \E tail \in pat.alts : MatchTail(Drop(s, k), tail, TRUE)}

\* re.match(pattern, clean) succeeds
PatMatches(s, pat) ==
    IF pat.grp THEN GroupLens(s, pat) # {}
    ELSE \E tail \in pat.alts : MatchTail(s, tail, FALSE)

\* the patterns in the order the two nested loops of get_semantic_key try them
RECURSIVE Flatten(_)
Flatten(ss) == IF ss = <<>> THEN <<>> ELSE Head(ss) \o Flatten(Tail(ss))

\* re.sub(r'^\d+[-_]', '', name): a leading run of digits and one separator
RECURSIVE DigitRun(_)
DigitRun(s) == IF s # <<>> /\ Head(s) \in Range(DigitChars) THEN 1 + DigitRun(Tail(s)) ELSE 0
StripNumericPrefix(s) ==
    LET d == DigitRun(s)
    IN IF d >= 1 /\ Len(s) > d /\ IsSep(s[d + 1]) THEN Drop(s, d + 1) ELSE s

\* re.sub(r'[-_]', ' ', s)
SepsToSpaces(s) == [i \in DOMAIN s |-> IF IsSep(s[i]) THEN " " ELSE s[i]]

\* the first three lines of get_semantic_key
CleanName(name) == Strip(Lower(SepsToSpaces(StripNumericPrefix(name))))

\* IntelligentDeduplicator.get_semantic_key
get_semantic_key(name) ==
    LET clean == CleanName(name)
        pats == Flatten(duplicate_patterns)
        hits == {n \in DOMAIN pats : PatMatches(clean, pats[n])}
    IN IF hits = {} THEN clean
       ELSE LET first == CHOOSE n \in hits : \A m \in hits : n <= m
                pat == pats[first]
            IN IF pat.grp
               THEN \* greedy '(.+)': the longest group 1 that lets the rest match
                    LET k == CHOOSE n \in GroupLens(clean, pat) :
                                 \A m \in GroupLens(clean, pat) : m <= n
                    IN Strip(Take(clean, k))
               ELSE clean

\* re.sub(r'[^a-z0-9]', '', name.lower())
AlnumOnly(name) == SelectSeq(Lower(name), IsAlnumLower)

\* name_similarity without the substring test: the ratio alone
name_similarity_ratio_only(n1, n2) == ratio(AlnumOnly(n1), AlnumOnly(n2))

\* IntelligentDeduplicator.name_similarity
name_similarity(name1, name2) ==
    LET clean1 == AlnumOnly(name1)
        clean2 == AlnumOnly(name2)
    IN IF Contains(clean2, clean1) \/ Contains(clean1, clean2) THEN <<9, 10>>
       ELSE ratio(clean1, clean2)

\* IntelligentDeduplicator.content_similarity
content_similarity(content1, content2) ==
    ratio(Lower(Take(content1, ContentPrefix)), Lower(Take(content2, ContentPrefix)))

\* the suffixes of re.sub(r'[-_](pro|expert|developer|engineer|specialist)$', '', ...)
RoleSuffixes == <<PRO, EXPERT, DEVELOPER, ENGINEER, SPECIALIST>>

\* re.sub(r'[-_](pro|expert|developer|engineer|specialist)$', '', name.lower()):
\* the alternation takes the first suffix, in its order, that ends the name
\* after a separator
StripRoleSuffix(name) ==
    LET low == Lower(name)
        Ends(n) == LET w == RoleSuffixes[n]
                   IN /\ Len(low) > Len(w)
                      /\ Drop(low, Len(low) - Len(w)) = w
                      /\ IsSep(low[Len(low) - Len(w)])
        hits == {n \in DOMAIN RoleSuffixes : Ends(n)}
    IN IF hits = {} THEN low
       ELSE LET n == CHOOSE h \in hits : \A m \in hits : h <= m
            IN Take(low, Len(low) - Len(RoleSuffixes[n]) - 1)

\* ------------------------------------- the texts of the documents on disk
STEM1 == <<"p","y","t","h","o","n","-","p","r","o">>
STEM2 == <<"p","y","t","h","o","n","-","e","x","p","e","r","t">>
STEM3 == <<"p","r","o">>
STEM4 == <<"r","u","s","t","-","e","n","g","i","n","e","e","r">>
STEM5 == <<"a","b","b","a">>
STEM6 == <<"b","a","b","a">>
STEM7 == <<"G","o","_","D","e","v">>
STEM8 == <<"r","u","s","t","-","q","a">>
NAME1 == <<"a","a","b","b">>
NAME2 == <<"a","a","a","b">>
NAME3 == <<"a","b","b","b">>
DESC5 == <<"d","d">>
REPO4 == <<"w","s","h","o","b","s","o","n">>
\* a run of n characters that no pattern, marker or keyword contains
Filler(n) == [i \in 1..n |-> "q"]
\* the header blocks of the documents, from the opening '---' to the end of
\* the line of the closing one
HEAD1 == <<"-","-","-","\n","n","a","m","e",":"," ","a","a","b","b","\n","-","-","-","\n">>
HEAD2 == <<"-","-","-","\n","n","a","m","e",":"," ","a","a","a","b","\n","t","o","o","l","s",":"," ","[","R","e","a","d","]","\n","-","-","-","\n">>
HEAD3 == <<"-","-","-","\n","n","a","m","e",":"," ","a","b","b","b","\n","t","o","o","l","s",":"," ","[","R","e","a","d","]","\n","-","-","-","\n">>
HEAD5 == <<"-","-","-","\n","d","e","s","c","r","i","p","t","i","o","n",":"," ","d","d","\n","t","o","o","l","s",":"," ","[","R","e","a","d",","," ","W","r","i","t","e",","," ","B","a","s","h","]","\n","-","-","-","\n">>
HEAD6 == <<"-","-","-","\n","d","e","s","c","r","i","p","t","i","o","n",":"," ","d","d","\n","-","-","-","\n">>
HEAD8 == <<"-","-","-","\n","t","o","o","l","s",":"," ","[","R","e","a","d","]","\n","-","-","-","\n">>
TEXT1 == Filler(28)
TEXT2 == Filler(20)
TEXT3 == Filler(33) \o <<"c","c","c","c","c","c","c","c","c">>
TEXT4 == <<"Y","o","u"," ","a","r","e"," ","z","z">>
TEXT5 == Filler(19)
TEXT6 == Filler(19)
TEXT7 == <<"y","o","u"," ","a","r","e"," ","z","z">>
TEXT8 == <<>>

\* the description of a document that is built to order: the stem of its file
\* name, the name and the description its header gives (empty: the header has
\* no such key), the number of tools the header lists (0: no such key), the
\* numbers of section lines and of code fences of its body, the length the
\* text is padded to, and the text that follows the padding.  NoDocument
\* describes no document.
NoDocument ==
    [stem |-> <<>>, name |-> <<>>, description |-> <<>>, tools |-> 0,
     sections |-> 0, fences |-> 0, length |-> 0, tail |-> <<>>]
L_OPEN == <<"-","-","-","\n">>
L_NAME == <<"n","a","m","e",":"," ">>
L_DESCRIPTION == <<"d","e","s","c","r","i","p","t","i","o","n",":"," ">>
L_TOOLS == <<"t","o","o","l","s",":"," ","[">>
L_COMMA == <<","," ">>
L_CLOSE == <<"]","\n">>
L_FENCE == <<"grave","grave","grave","\n">>
ToolNames == <<"r", "w", "e", "b", "g", "t">>
SectionLines == <<<<"#","#"," ","R","e","s","p","o","n","s","i","b","i","l","i","t","i","e","s","\n">>,
                  <<"#","#"," ","G","u","i","d","e","l","i","n","e","s","\n">>,
                  <<"#","#"," ","W","o","r","k","f","l","o","w","\n">>,
                  <<"Y","o","u"," ","a","r","e"," ","h","e","r","e"," ","a","n","d"," ","m","u","s","t"," ","t","a","k","e"," ","t","h","e","s","e"," ","s","t","e","p","s","\n">>>>

\* names the functions of a name are called with
N_07_HYPHEN == <<"0","7","-">>
N_07_UNDERSCORE == <<"0","7","_">>
N_PYTHON == <<"p","y","t","h","o","n">>
N_RUST_CAP == <<"R","u","s","t">>
N_3 == <<"3">>
N_CONTEST == <<"c","o","n","t","e","s","t">>
N_UNIT_TEST == <<"u","n","i","t","-","t","e","s","t">>
N_APP_DEBUG == <<"a","p","p","_","d","e","b","u","g">>
N_PYTHON_PRO_MAX == <<"p","y","t","h","o","n","-","p","r","o","-","m","a","x">>
N_DATA_PIPELINE == <<"D","a","t","a"," ","P","i","p","e","l","i","n","e">>
N_07_PYTHON == <<"0","7","-","p","y","t","h","o","n">>
N_PYTHON_BACKEND == <<"p","y","t","h","o","n","-","b","a","c","k","e","n","d","-","e","n","g","i","n","e","e","r","-","s","p","e","c","i","a","l","i","s","t">>
N_HYPHEN_API == <<"-","a","p","i">>

SPECIALIZED == <<"s","p","e","c","i","a","l","i","z","e","d">>
GENERAL == <<"g","e","n","e","r","a","l">>
EXT_MD == <<".","m","d">>
M_H2_SP == <<"#","#"," ">>
M_H3_SP == <<"#","#","#"," ">>
M_YOU_ARE_CAP == <<"Y","o","u"," ","a","r","e">>
M_YOUR_ROLE_CAP == <<"Y","o","u","r"," ","r","o","l","e">>
skip_names == <<<<"r","e","a","d","m","e">>, <<"l","i","c","e","n","s","e">>, <<"c","o","n","t","r","i","b","u","t","i","n","g">>, <<".","g","i","t","h","u","b">>, <<"n","o","d","e","_","m","o","d","u","l","e","s">>>>
glob_patterns == <<<<".","m","d">>, <<".","y","a","m","l">>, <<".","y","m","l">>>>
instruction_keywords == <<<<"r","e","s","p","o","n","s","i","b","i","l","i","t","i","e","s">>, <<"g","u","i","d","e","l","i","n","e","s">>, <<"p","r","o","c","e","s","s">>, <<"s","t","e","p","s">>, <<"w","o","r","k","f","l","o","w">>>>

\* ------------------------------------------------------------ the documents
\* The parsed header of a document, as extract_yaml / extract_yaml_frontmatter
\* return it: the keys present and their values ({} is keys = {}).
NoYaml == [keys |-> {}, name |-> <<>>, description |-> <<>>, tools |-> <<>>]
Yaml(keys, name, description, tools) ==
    [keys |-> keys, name |-> name, description |-> description, tools |-> tools]

\* yaml.get('name', default) and the like
YamlGet(yaml, key, default) ==
    IF key \notin yaml.keys THEN default
    ELSE IF key = "name" THEN yaml.name
    ELSE IF key = "description" THEN yaml.description
    ELSE yaml.tools

\* The documents that can be on disk.  header is the text of the header
\* block ('---' to '---', empty when the document has none), yaml what
\* yaml.safe_load makes of it, body the text after it; grandparent is
\* parts[-3] of the path, repo the temp_<repo> directory the document was
\* cloned into.
Disk == <<
    [path |-> 1, stem |-> STEM1, ext |-> EXT_MD, grandparent |-> <<>>, repo |-> "alpha",
     yaml |-> Yaml({"name"}, NAME1, <<>>, <<>>), header |-> HEAD1, body |-> TEXT1],
    [path |-> 2, stem |-> STEM2, ext |-> EXT_MD, grandparent |-> <<>>, repo |-> "beta",
     yaml |-> Yaml({"name", "tools"}, NAME2, <<>>, <<"Read">>), header |-> HEAD2, body |-> TEXT2],
    [path |-> 3, stem |-> STEM3, ext |-> EXT_MD, grandparent |-> <<>>, repo |-> "gamma",
     yaml |-> Yaml({"name", "tools"}, NAME3, <<>>, <<"Read">>), header |-> HEAD3, body |-> TEXT3],
    [path |-> 4, stem |-> STEM4, ext |-> EXT_MD, grandparent |-> REPO4, repo |-> "alpha",
     yaml |-> NoYaml, header |-> <<>>, body |-> TEXT4],
    [path |-> 5, stem |-> STEM5, ext |-> EXT_MD, grandparent |-> <<>>, repo |-> "beta",
     yaml |-> Yaml({"description", "tools"}, <<>>, DESC5, <<"Read", "Write", "Bash">>),
     header |-> HEAD5, body |-> TEXT5],
    [path |-> 6, stem |-> STEM6, ext |-> EXT_MD, grandparent |-> <<>>, repo |-> "gamma",
     yaml |-> Yaml({"description"}, <<>>, DESC5, <<>>), header |-> HEAD6, body |-> TEXT6],
    [path |-> 7, stem |-> STEM7, ext |-> EXT_MD, grandparent |-> <<>>, repo |-> "alpha",
     yaml |-> NoYaml, header |-> <<>>, body |-> TEXT7],
    [path |-> 8, stem |-> STEM8, ext |-> EXT_MD, grandparent |-> <<>>, repo |-> "beta",
     yaml |-> Yaml({"tools"}, <<>>, <<>>, <<"Read">>), header |-> HEAD8, body |-> TEXT8] >>

Paths == DOMAIN Disk

\* Further documents: three with the name of document 1 and the same first
\* 1000 characters, of 1001, 1002 and 1002 characters; one whose header gives
\* the name as the empty string; a directory whose name ends in .md, which
\* read_text raises IsADirectoryError for; a README; two whose header has a
\* key without a value, which yaml.safe_load gives as None; and one whose
\* header yaml.safe_load raises for.
NONE == <<"None">>
STEM9 == <<"a","l","p","h","a">>
STEM10 == <<"b","e","t","a">>
STEM11 == <<"g","a","m","m","a">>
STEM12 == <<"h","e","l","p","e","r">>
STEM13 == <<"n","o","t","e","s">>
STEM14 == <<"R","E","A","D","M","E">>
STEM15 == <<"n","a","m","e","l","e","s","s">>
STEM16 == <<"u","n","d","e","s","c","r","i","b","e","d">>
HEAD12 == <<"-","-","-","\n","n","a","m","e",":"," ","\"","\"","\n","-","-","-","\n">>
HEAD15 == <<"-","-","-","\n","n","a","m","e",":","\n","-","-","-","\n">>
STEM17 == <<"b","r","o","k","e","n">>
\* a text whose header yaml.safe_load raises for: the parser returns no header
\* and the whole text
BROKEN == <<"-","-","-","\n","n","a","m","e",":"," ","[","a","\n","-","-","-","\n","Y","o","u"," ","a","r","e"," ","z","z">>
HEAD16 == <<"-","-","-","\n","d","e","s","c","r","i","p","t","i","o","n",":","\n","-","-","-","\n">>
Cloned == <<
    [path |-> 9, stem |-> STEM9, ext |-> EXT_MD, grandparent |-> <<>>, repo |-> "alpha",
     yaml |-> Yaml({"name"}, NAME1, <<>>, <<>>), header |-> HEAD1, body |-> Filler(982)],
    [path |-> 10, stem |-> STEM10, ext |-> EXT_MD, grandparent |-> <<>>, repo |-> "beta",
     yaml |-> Yaml({"name"}, NAME1, <<>>, <<>>), header |-> HEAD1, body |-> Filler(983)],
    [path |-> 11, stem |-> STEM11, ext |-> EXT_MD, grandparent |-> <<>>, repo |-> "gamma",
     yaml |-> Yaml({"name"}, NAME1, <<>>, <<>>), header |-> HEAD1,
     body |-> Filler(982) \o <<"c">>],
    [path |-> 12, stem |-> STEM12, ext |-> EXT_MD, grandparent |-> <<>>, repo |-> "alpha",
     yaml |-> Yaml({"name"}, <<>>, <<>>, <<>>), header |-> HEAD12, body |-> TEXT4],
    [path |-> 13, stem |-> STEM13, ext |-> EXT_MD, grandparent |-> <<>>, repo |-> "beta",
     yaml |-> NoYaml, header |-> <<>>, body |-> <<>>],
    [path |-> 14, stem |-> STEM14, ext |-> EXT_MD, grandparent |-> <<>>, repo |-> "gamma",
     yaml |-> NoYaml, header |-> <<>>, body |-> TEXT4],
    [path |-> 15, stem |-> STEM15, ext |-> EXT_MD, grandparent |-> <<>>, repo |-> "alpha",
     yaml |-> Yaml({"name"}, NONE, <<>>, <<>>), header |-> HEAD15, body |-> TEXT4],
    [path |-> 16, stem |-> STEM16, ext |-> EXT_MD, grandparent |-> <<>>, repo |-> "beta",
     yaml |-> Yaml({"description"}, <<>>, NONE, <<>>), header |-> HEAD16, body |-> TEXT4],
    [path |-> 17, stem |-> STEM17, ext |-> EXT_MD, grandparent |-> <<>>, repo |-> "gamma",
     yaml |-> NoYaml, header |-> <<>>, body |-> BROKEN] >>
Documents == Disk \o Cloned
\* the paths read_text raises for
Unreadable == {13}
read_raises(file) == file.path \in Unreadable
\* a key of the header whose value is None
IsNone(yaml, key) == key \in yaml.keys /\ YamlGet(yaml, key, <<>>) = NONE

\* file_path.read_text(): the whole text of a document
read_text(file) == file.header \o file.body

\* extract_yaml / extract_yaml_frontmatter of the text of a document:
\* <<yaml_data, clean_content>>
extract_yaml(file) == <<file.yaml, Strip(file.body)>>

\* the sequences of distinct paths of length at most n: the orders in which
\* rglob / glob can hand the documents of a directory to the loader
FileLists(n) ==
    UNION {{s \in [1..k -> Paths] : \A i, j \in 1..k : i # j => s[i] # s[j]} : k \in 0..n}

\* ------------------------------- markers calculate_quality_score looks for
M_RESPONSIBILITIES_H == <<"#","#"," ","r","e","s","p","o","n","s","i","b","i","l","i","t","i","e","s">>
M_YOUR_ROLE_H == <<"#","#"," ","y","o","u","r"," ","r","o","l","e">>
M_GUIDELINES_H == <<"#","#"," ","g","u","i","d","e","l","i","n","e","s">>
M_PRINCIPLES_H == <<"#","#"," ","p","r","i","n","c","i","p","l","e","s">>
M_WORKFLOW_H == <<"#","#"," ","w","o","r","k","f","l","o","w">>
M_PROCESS_H == <<"#","#"," ","p","r","o","c","e","s","s">>
M_EXAMPLES_H == <<"#","#"," ","e","x","a","m","p","l","e","s">>
M_FENCE == <<BACKTICK, BACKTICK, BACKTICK>>
M_YOU_ARE == <<"y","o","u"," ","a","r","e">>
M_YOUR_ROLE == <<"y","o","u","r"," ","r","o","l","e">>
M_MUST == <<"m","u","s","t">>
M_SHOULD == <<"s","h","o","u","l","d">>
M_STEP == <<"s","t","e","p">>
M_PROCESS == <<"p","r","o","c","e","s","s">>
M_H2 == <<"#","#">>
quality_repos == <<<<"v","o","l","t","a","g","e","n","t">>, <<"w","s","h","o","b","s","o","n">>, <<"0","x","f","u","r","a","i">>, <<"d","a","v","e","p","o","o","n">>>>

\* s.count(p): the non-overlapping occurrences of p in s, from the left
RECURSIVE Count(_, _)
\* s.find(p): the offset of the leftmost occurrence of p in s
Find(s, p) ==
    CHOOSE k \in 0..(Len(s) - Len(p)) :
        /\ SubSeq(s, k + 1, k + Len(p)) = p
        /\ \A m \in 0..(k - 1) : SubSeq(s, m + 1, m + Len(p)) # p
Count(s, p) ==
    IF ~Contains(s, p) THEN 0
    ELSE 1 + Count(Drop(s, Find(s, p) + Len(p)), p)

\* ------------------------------------------------ IntelligentDeduplicator
\* '5. Code examples bonus': a tier that awards the even counts of fences
\* only
CodeBlockPoints_pairs_only(code_blocks) ==
    IF code_blocks = 4 THEN 10 ELSE IF code_blocks = 2 THEN 5 ELSE 0

\* '5. Code examples bonus (max 10 points)'
CodeBlockPoints(code_blocks) ==
    IF code_blocks >= 4 THEN 10 ELSE IF code_blocks >= 2 THEN 5 ELSE 0

\* IntelligentDeduplicator.calculate_quality_score: the score it returns
ID_calculate_quality_score(agent) ==
    LET content_lower == Lower(agent.content)
        Has(m) == Contains(content_lower, m)
        desc_len == Len(YamlGet(agent.yaml_data, "description", <<>>))
        tool_count == Len(YamlGet(agent.yaml_data, "tools", <<>>))
        code_blocks == Count(agent.content, M_FENCE)
        length == IF agent.content_length > 3000 THEN 20
                  ELSE IF agent.content_length > 2000 THEN 15
                  ELSE IF agent.content_length > 1000 THEN 10
                  ELSE IF agent.content_length > 500 THEN 5
                  ELSE 0
        header == IF agent.has_yaml
                  THEN 5
                       + (IF "name" \in agent.yaml_data.keys THEN 5 ELSE 0)
                       + (IF "description" \in agent.yaml_data.keys
                          THEN 5 + (IF desc_len > 100 THEN 5 ELSE IF desc_len > 50 THEN 3 ELSE 0)
                          ELSE 0)
                       + (IF "tools" \in agent.yaml_data.keys
                          THEN 5 + (IF tool_count > 5 THEN 5 ELSE IF tool_count > 2 THEN 3 ELSE 0)
                          ELSE 0)
                  ELSE 0
        structure == (IF Has(M_RESPONSIBILITIES_H) \/ Has(M_YOUR_ROLE_H) THEN 5 ELSE 0)
                     + (IF Has(M_GUIDELINES_H) \/ Has(M_PRINCIPLES_H) THEN 5 ELSE 0)
                     + (IF Has(M_WORKFLOW_H) \/ Has(M_PROCESS_H) THEN 5 ELSE 0)
                     + (IF Has(M_EXAMPLES_H) \/ Contains(agent.content, M_FENCE) THEN 5 ELSE 0)
        specificity == (IF Has(M_YOU_ARE) \/ Has(M_YOUR_ROLE) THEN 5 ELSE 0)
                       + (IF Has(M_MUST) \/ Has(M_SHOULD) THEN 5 ELSE 0)
                       + (IF Has(M_STEP) \/ Has(M_PROCESS) THEN 5 ELSE 0)
        examples == CodeBlockPoints(code_blocks)
        source == IF \E n \in DOMAIN quality_repos :
                        Contains(Lower(agent.source_repo), quality_repos[n])
                  THEN 10 ELSE 0
    IN length + header + structure + specificity + examples + source

\* IntelligentDeduplicator.calculate_quality_score: the agent it leaves behind
\* (it sets has_examples on the agent it scores)
ID_examples_flagged(agent) ==
    [agent EXCEPT !.has_examples =
        IF Contains(Lower(agent.content), M_EXAMPLES_H) \/ Contains(agent.content, M_FENCE)
        THEN TRUE ELSE @]

\* agent.quality_score = self.calculate_quality_score(agent)
ID_scored(agent) ==
    [ID_examples_flagged(agent) EXCEPT !.quality_score = ID_calculate_quality_score(agent)]

\* agent = Agent(...) in load_agents
ID_new_agent(file) ==
    [path |-> file.path,
     name |-> file.stem,
     content |-> read_text(file),
     yaml_data |-> extract_yaml(file)[1],
     quality_score |-> 0,
     content_length |-> Len(read_text(file)),
     has_yaml |-> file.yaml.keys # {},
     has_tools |-> "tools" \in file.yaml.keys,
     has_structure |-> Contains(read_text(file), M_H2),
     has_examples |-> FALSE,
     source_repo |-> file.grandparent]

\* the Agent that one iteration of load_agents builds from a document
ID_Agent(file) == ID_scored(ID_new_agent(file))

\* ID_is_duplicate where the suffix test assigns its outcome to is_duplicate
\* instead of only setting it: a failing suffix test vetoes the chain
ID_is_duplicate_suffix_assigns(agent1, agent2) ==
    LET name1_clean == StripRoleSuffix(agent1.name)
        name2_clean == StripRoleSuffix(agent2.name)
    IN name1_clean = name2_clean /\ name1_clean # <<>>

\* ID_is_duplicate without the test of the semantic keys
ID_is_duplicate_no_key_test(agent1, agent2) ==
    LET chain == IF Exceeds(name_similarity(agent1.name, agent2.name), 7, 10) THEN TRUE
                 ELSE IF Exceeds(content_similarity(agent1.content, agent2.content), 8, 10) THEN TRUE
                 ELSE FALSE
        name1_clean == StripRoleSuffix(agent1.name)
        name2_clean == StripRoleSuffix(agent2.name)
    IN IF name1_clean = name2_clean /\ name1_clean # <<>> THEN TRUE ELSE chain

\* the duplicate test of the inner loop of find_duplicates, agent1 the seed
ID_is_duplicate(agent1, agent2) ==
    LET key1 == get_semantic_key(agent1.name)
        key2 == get_semantic_key(agent2.name)
        chain == IF key1 = key2 THEN TRUE
                 ELSE IF Exceeds(name_similarity(agent1.name, agent2.name), 7, 10) THEN TRUE
                 ELSE IF Exceeds(content_similarity(agent1.content, agent2.content), 8, 10) THEN TRUE
                 ELSE FALSE
        name1_clean == StripRoleSuffix(agent1.name)
        name2_clean == StripRoleSuffix(agent2.name)
    IN IF name1_clean = name2_clean /\ name1_clean # <<>> THEN TRUE ELSE chain

\* The agents of the documents on disk and the duplicate test between them,
\* tabulated once: load_agents builds the same agent from the same document
\* and nothing changes the name or content the test reads.
ID_loaded == [p \in DOMAIN Documents |-> ID_Agent(Documents[p])]
\* the try block of load_agents raises for the document: read_text does, or
\* len() of a description that is None in calculate_quality_score
ID_raises(file) == read_raises(file) \/ IsNone(file.yaml, "description")
\* the documents rglob("*.md") finds among fs
ID_found(fs) == SelectSeq(fs, LAMBDA f : f.ext = EXT_MD)
\* the agents load_agents appends for the documents fs: those the try block
\* does not raise for (except Exception: print)
ID_kept(found) == SelectSeq(found, LAMBDA f : ~ID_raises(f))
ID_collected_of(kept) == [i \in DOMAIN kept |-> ID_loaded[kept[i].path]]
ID_collected(fs) == ID_collected_of(ID_kept(ID_found(fs)))
ID_duplicate_table ==
    [p \in Paths |-> [q \in Paths |-> ID_is_duplicate(ID_loaded[p], ID_loaded[q])]]
ID_matches(agent1, agent2) == ID_duplicate_table[agent1.path][agent2.path]

\* ID_scan that forgets processed.add(agent2.path)
RECURSIVE ID_scan_unmarked(_, _, _, _, _)
ID_scan_unmarked(agents, seed, j, current_group, processed) ==
    IF j > Len(agents) THEN <<current_group, processed>>
    ELSE IF agents[j].path \in processed
         THEN ID_scan_unmarked(agents, seed, j + 1, current_group, processed)
    ELSE IF ID_matches(seed, agents[j])
         THEN ID_scan_unmarked(agents, seed, j + 1, Append(current_group, agents[j]), processed)
    ELSE ID_scan_unmarked(agents, seed, j + 1, current_group, processed)

\* ID_scan that tests a candidate against every member of current_group
RECURSIVE ID_scan_transitive(_, _, _, _, _)
ID_scan_transitive(agents, seed, j, current_group, processed) ==
    IF j > Len(agents) THEN <<current_group, processed>>
    ELSE IF agents[j].path \in processed
         THEN ID_scan_transitive(agents, seed, j + 1, current_group, processed)
    ELSE IF \E k \in DOMAIN current_group : ID_matches(current_group[k], agents[j])
         THEN ID_scan_transitive(agents, seed, j + 1, Append(current_group, agents[j]),
                                 processed \cup {agents[j].path})
    ELSE ID_scan_transitive(agents, seed, j + 1, current_group, processed)

\* ID_scan that takes every candidate no seed has taken yet, matching or not
RECURSIVE ID_scan_all_join(_, _, _, _, _)
ID_scan_all_join(agents, seed, j, current_group, processed) ==
    IF j > Len(agents) THEN <<current_group, processed>>
    ELSE IF agents[j].path \in processed
         THEN ID_scan_all_join(agents, seed, j + 1, current_group, processed)
    ELSE ID_scan_all_join(agents, seed, j + 1, Append(current_group, agents[j]),
                          processed \cup {agents[j].path})

\* the inner loop of find_duplicates from index j on: <<current_group, processed>>
RECURSIVE ID_scan(_, _, _, _, _)
ID_scan(agents, seed, j, current_group, processed) ==
    IF j > Len(agents) THEN <<current_group, processed>>
    ELSE IF agents[j].path \in processed
         THEN ID_scan(agents, seed, j + 1, current_group, processed)
    ELSE IF ID_matches(seed, agents[j])
         THEN ID_scan(agents, seed, j + 1, Append(current_group, agents[j]),
                      processed \cup {agents[j].path})
    ELSE ID_scan(agents, seed, j + 1, current_group, processed)

\* 'Save group if it has duplicates'
ID_saved(groups, current_group) ==
    IF Len(current_group) > 1 THEN Append(groups, current_group) ELSE groups

\* the outer loop of find_duplicates from index i on: the groups dictionary,
\* as the sequence of its values in the order of their group_id
RECURSIVE ID_groups(_, _, _, _)
\* the seed agents[i] scanned with result <<current_group, processed>>, the
\* outer loop goes on after it
ID_next_seed(agents, i, groups, scanned) ==
    ID_groups(agents, i + 1, scanned[2], ID_saved(groups, scanned[1]))
ID_groups(agents, i, processed, groups) ==
    IF i > Len(agents) THEN groups
    ELSE IF agents[i].path \in processed THEN ID_groups(agents, i + 1, processed, groups)
    ELSE ID_next_seed(agents, i, groups,
                      ID_scan(agents, agents[i], i + 1, <<agents[i]>>,
                              processed \cup {agents[i].path}))

\* InsertByScore of a sort that is not stable: an element goes before the
\* elements of equal score
InsertByScore_unstable(sorted, x) ==
    LET after == {n \in 1..Len(sorted) : sorted[n].quality_score > x.quality_score}
        k == IF after = {} THEN 0 ELSE CHOOSE n \in after : \A m \in after : m <= n
    IN SubSeq(sorted, 1, k) \o <<x>> \o SubSeq(sorted, k + 1, Len(sorted))

\* list.sort(key=lambda x: x.quality_score, reverse=True): descending and
\* stable, elements of equal score keep their order
RECURSIVE SortByScore(_)
InsertByScore(sorted, x) ==
    LET after == {n \in 1..Len(sorted) : sorted[n].quality_score >= x.quality_score}
        k == IF after = {} THEN 0 ELSE CHOOSE n \in after : \A m \in after : m <= n
    IN SubSeq(sorted, 1, k) \o <<x>> \o SubSeq(sorted, k + 1, Len(sorted))
SortByScore(s) ==
    IF s = <<>> THEN <<>>
    ELSE InsertByScore(SortByScore(SubSeq(s, 1, Len(s) - 1)), s[Len(s)])

\* a < b for Python strings: by code point, a proper prefix first
RECURSIVE StrLess(_, _)
StrLess(a, b) ==
    IF b = <<>> THEN FALSE
    ELSE IF a = <<>> THEN TRUE
    ELSE IF Head(a) # Head(b) THEN Ord(Head(a)) < Ord(Head(b))
    ELSE StrLess(Tail(a), Tail(b))

\* list.sort(key=lambda x: x.name.lower()): ascending and stable
RECURSIVE SortByName(_)
InsertByName(sorted, x) ==
    LET after == {n \in 1..Len(sorted) : ~StrLess(Lower(x.name), Lower(sorted[n].name))}
        k == IF after = {} THEN 0 ELSE CHOOSE n \in after : \A m \in after : m <= n
    IN SubSeq(sorted, 1, k) \o <<x>> \o SubSeq(sorted, k + 1, Len(sorted))
SortByName(s) ==
    IF s = <<>> THEN <<>>
    ELSE InsertByName(SortByName(SubSeq(s, 1, Len(s) - 1)), s[Len(s)])

\* [f(x) for x in s]
Names(s) == [i \in DOMAIN s |-> s[i].name]
PathsOf(s) == {s[i].path : i \in DOMAIN s}

\* get_semantic_key of the names of the documents on disk, tabulated once
StemsOnDisk == {Disk[p].stem : p \in Paths}
semantic_key_table == [name \in StemsOnDisk |-> get_semantic_key(name)]

\* ID_decision that lists every member of the group as rejected
ID_decision_all_rejected(agents) ==
    [group |-> semantic_key_table[agents[1].name],
     selected |-> agents[1].name,
     score |-> agents[1].quality_score,
     rejected |-> Names(agents)]

\* the decision select_best_from_groups logs for a sorted group
ID_decision(agents) ==
    [group |-> semantic_key_table[agents[1].name],
     selected |-> agents[1].name,
     score |-> agents[1].quality_score,
     rejected |-> Names(Tail(agents))]

\* the if/elif chain of save_deduplicated_collection, in its order
save_rules == <<
    [keywords |-> <<<<"p","y","t","h","o","n">>, <<"p","y">>, <<"d","j","a","n","g","o">>, <<"f","l","a","s","k">>, <<"f","a","s","t","a","p","i">>>>,
     category |-> <<"l","a","n","g","u","a","g","e","s">>, subcategory |-> <<"p","y","t","h","o","n">>],
    [keywords |-> <<<<"j","a","v","a","s","c","r","i","p","t">>, <<"j","s">>, <<"n","o","d","e">>, <<"r","e","a","c","t">>, <<"v","u","e">>>>,
     category |-> <<"l","a","n","g","u","a","g","e","s">>, subcategory |-> <<"j","a","v","a","s","c","r","i","p","t">>],
    [keywords |-> <<<<"t","y","p","e","s","c","r","i","p","t">>, <<"t","s">>>>,
     category |-> <<"l","a","n","g","u","a","g","e","s">>, subcategory |-> <<"t","y","p","e","s","c","r","i","p","t">>],
    [keywords |-> <<<<"r","u","s","t">>, <<"c","a","r","g","o">>>>,
     category |-> <<"l","a","n","g","u","a","g","e","s">>, subcategory |-> <<"r","u","s","t">>],
    [keywords |-> <<<<"g","o">>, <<"g","o","l","a","n","g">>>>,
     category |-> <<"l","a","n","g","u","a","g","e","s">>, subcategory |-> <<"g","o">>],
    [keywords |-> <<<<"j","a","v","a">>, <<"s","p","r","i","n","g">>>>,
     category |-> <<"l","a","n","g","u","a","g","e","s">>, subcategory |-> <<"j","a","v","a">>],
    [keywords |-> <<<<"r","u","b","y">>, <<"r","a","i","l","s">>>>,
     category |-> <<"l","a","n","g","u","a","g","e","s">>, subcategory |-> <<"r","u","b","y">>],
    [keywords |-> <<<<"p","h","p">>, <<"l","a","r","a","v","e","l">>>>,
     category |-> <<"l","a","n","g","u","a","g","e","s">>, subcategory |-> <<"p","h","p">>],
    [keywords |-> <<<<"c","s","h","a","r","p">>, <<"c","#">>, <<"d","o","t","n","e","t">>>>,
     category |-> <<"l","a","n","g","u","a","g","e","s">>, subcategory |-> <<"c","s","h","a","r","p">>],
    [keywords |-> <<<<"t","e","s","t">>, <<"q","a">>, <<"j","e","s","t">>, <<"p","y","t","e","s","t">>>>,
     category |-> <<"t","a","s","k","s">>, subcategory |-> <<"t","e","s","t","i","n","g">>],
    [keywords |-> <<<<"d","e","b","u","g">>, <<"f","i","x">>, <<"t","r","o","u","b","l","e","s","h","o","o","t">>>>,
     category |-> <<"t","a","s","k","s">>, subcategory |-> <<"d","e","b","u","g","g","i","n","g">>],
    [keywords |-> <<<<"r","e","f","a","c","t","o","r">>, <<"o","p","t","i","m","i","z","e">>, <<"c","l","e","a","n">>>>,
     category |-> <<"t","a","s","k","s">>, subcategory |-> <<"r","e","f","a","c","t","o","r","i","n","g">>],
    [keywords |-> <<<<"s","e","c","u","r","i","t","y">>, <<"a","u","d","i","t">>, <<"v","u","l","n","e","r","a","b","i","l","i","t","y">>>>,
     category |-> <<"t","a","s","k","s">>, subcategory |-> <<"s","e","c","u","r","i","t","y">>],
    [keywords |-> <<<<"d","e","p","l","o","y">>, <<"c","i">>, <<"c","d">>, <<"d","o","c","k","e","r">>>>,
     category |-> <<"t","a","s","k","s">>, subcategory |-> <<"d","e","p","l","o","y","m","e","n","t">>],
    [keywords |-> <<<<"d","o","c","u","m","e","n","t">>, <<"d","o","c","s">>, <<"r","e","a","d","m","e">>>>,
     category |-> <<"t","a","s","k","s">>, subcategory |-> <<"d","o","c","u","m","e","n","t","a","t","i","o","n">>] >>

\* ------------------------------------------------------- AgentCollector
\* self.categories, one entry per (category, subcategory) in the order the two
\* nested loops of categorize_agent visit them
categories == <<
    [category |-> <<"l","a","n","g","u","a","g","e","s">>, subcategory |-> <<"p","y","t","h","o","n">>,
     keywords |-> <<<<"p","y","t","h","o","n">>, <<"p","y">>, <<"p","i","p">>, <<"d","j","a","n","g","o">>, <<"f","l","a","s","k">>, <<"f","a","s","t","a","p","i">>>>],
    [category |-> <<"l","a","n","g","u","a","g","e","s">>, subcategory |-> <<"j","a","v","a","s","c","r","i","p","t">>,
     keywords |-> <<<<"j","a","v","a","s","c","r","i","p","t">>, <<"j","s">>, <<"n","o","d","e">>, <<"n","p","m">>>>],
    [category |-> <<"l","a","n","g","u","a","g","e","s">>, subcategory |-> <<"t","y","p","e","s","c","r","i","p","t">>,
     keywords |-> <<<<"t","y","p","e","s","c","r","i","p","t">>, <<"t","s">>, <<"t","s","x">>>>],
    [category |-> <<"l","a","n","g","u","a","g","e","s">>, subcategory |-> <<"j","a","v","a">>,
     keywords |-> <<<<"j","a","v","a">>, <<"s","p","r","i","n","g">>, <<"m","a","v","e","n">>>>],
    [category |-> <<"l","a","n","g","u","a","g","e","s">>, subcategory |-> <<"c","s","h","a","r","p">>,
     keywords |-> <<<<"c","#">>, <<"c","s","h","a","r","p">>, <<"d","o","t","n","e","t">>, <<".","n","e","t">>>>],
    [category |-> <<"l","a","n","g","u","a","g","e","s">>, subcategory |-> <<"c","p","p">>,
     keywords |-> <<<<"c","+","+">>, <<"c","p","p">>, <<"c","m","a","k","e">>>>],
    [category |-> <<"l","a","n","g","u","a","g","e","s">>, subcategory |-> <<"r","u","s","t">>,
     keywords |-> <<<<"r","u","s","t">>, <<"c","a","r","g","o">>>>],
    [category |-> <<"l","a","n","g","u","a","g","e","s">>, subcategory |-> <<"g","o">>,
     keywords |-> <<<<"g","o">>, <<"g","o","l","a","n","g">>>>],
    [category |-> <<"l","a","n","g","u","a","g","e","s">>, subcategory |-> <<"r","u","b","y">>,
     keywords |-> <<<<"r","u","b","y">>, <<"r","a","i","l","s">>>>],
    [category |-> <<"l","a","n","g","u","a","g","e","s">>, subcategory |-> <<"p","h","p">>,
     keywords |-> <<<<"p","h","p">>, <<"l","a","r","a","v","e","l">>>>],
    [category |-> <<"l","a","n","g","u","a","g","e","s">>, subcategory |-> <<"s","w","i","f","t">>,
     keywords |-> <<<<"s","w","i","f","t">>, <<"i","o","s">>>>],
    [category |-> <<"l","a","n","g","u","a","g","e","s">>, subcategory |-> <<"k","o","t","l","i","n">>,
     keywords |-> <<<<"k","o","t","l","i","n">>, <<"a","n","d","r","o","i","d">>>>],
    [category |-> <<"f","r","a","m","e","w","o","r","k","s">>, subcategory |-> <<"r","e","a","c","t">>,
     keywords |-> <<<<"r","e","a","c","t">>, <<"j","s","x">>, <<"h","o","o","k","s">>>>],
    [category |-> <<"f","r","a","m","e","w","o","r","k","s">>, subcategory |-> <<"v","u","e">>,
     keywords |-> <<<<"v","u","e">>, <<"v","u","e","x">>, <<"p","i","n","i","a">>>>],
    [category |-> <<"f","r","a","m","e","w","o","r","k","s">>, subcategory |-> <<"a","n","g","u","l","a","r">>,
     keywords |-> <<<<"a","n","g","u","l","a","r">>, <<"r","x","j","s">>>>],
    [category |-> <<"f","r","a","m","e","w","o","r","k","s">>, subcategory |-> <<"n","e","x","t","j","s">>,
     keywords |-> <<<<"n","e","x","t">>, <<"n","e","x","t","j","s">>, <<"v","e","r","c","e","l">>>>],
    [category |-> <<"f","r","a","m","e","w","o","r","k","s">>, subcategory |-> <<"e","x","p","r","e","s","s">>,
     keywords |-> <<<<"e","x","p","r","e","s","s">>, <<"n","o","d","e","j","s">>>>],
    [category |-> <<"f","r","a","m","e","w","o","r","k","s">>, subcategory |-> <<"d","j","a","n","g","o">>,
     keywords |-> <<<<"d","j","a","n","g","o">>, <<"d","r","f">>>>],
    [category |-> <<"f","r","a","m","e","w","o","r","k","s">>, subcategory |-> <<"f","l","a","s","k">>,
     keywords |-> <<<<"f","l","a","s","k">>, <<"w","e","r","k","z","e","u","g">>>>],
    [category |-> <<"f","r","a","m","e","w","o","r","k","s">>, subcategory |-> <<"f","a","s","t","a","p","i">>,
     keywords |-> <<<<"f","a","s","t","a","p","i">>, <<"p","y","d","a","n","t","i","c">>>>],
    [category |-> <<"f","r","a","m","e","w","o","r","k","s">>, subcategory |-> <<"s","p","r","i","n","g">>,
     keywords |-> <<<<"s","p","r","i","n","g">>, <<"b","o","o","t">>>>],
    [category |-> <<"f","r","a","m","e","w","o","r","k","s">>, subcategory |-> <<"r","a","i","l","s">>,
     keywords |-> <<<<"r","a","i","l","s">>, <<"a","c","t","i","v","e","r","e","c","o","r","d">>>>],
    [category |-> <<"t","a","s","k","s">>, subcategory |-> <<"t","e","s","t","i","n","g">>,
     keywords |-> <<<<"t","e","s","t">>, <<"t","e","s","t","i","n","g">>, <<"t","d","d">>, <<"b","d","d">>, <<"j","e","s","t">>, <<"p","y","t","e","s","t">>, <<"u","n","i","t">>>>],
    [category |-> <<"t","a","s","k","s">>, subcategory |-> <<"d","e","b","u","g","g","i","n","g">>,
     keywords |-> <<<<"d","e","b","u","g">>, <<"f","i","x">>, <<"b","u","g">>, <<"e","r","r","o","r">>, <<"t","r","o","u","b","l","e","s","h","o","o","t">>>>],
    [category |-> <<"t","a","s","k","s">>, subcategory |-> <<"r","e","f","a","c","t","o","r","i","n","g">>,
     keywords |-> <<<<"r","e","f","a","c","t","o","r">>, <<"o","p","t","i","m","i","z","e">>, <<"c","l","e","a","n">>, <<"i","m","p","r","o","v","e">>>>],
    [category |-> <<"t","a","s","k","s">>, subcategory |-> <<"s","e","c","u","r","i","t","y">>,
     keywords |-> <<<<"s","e","c","u","r","i","t","y">>, <<"a","u","d","i","t">>, <<"v","u","l","n","e","r","a","b","i","l","i","t","y">>, <<"p","e","n","e","t","r","a","t","i","o","n">>>>],
    [category |-> <<"t","a","s","k","s">>, subcategory |-> <<"r","e","v","i","e","w">>,
     keywords |-> <<<<"r","e","v","i","e","w">>, <<"c","o","d","e"," ","r","e","v","i","e","w">>, <<"q","u","a","l","i","t","y">>>>],
    [category |-> <<"t","a","s","k","s">>, subcategory |-> <<"d","o","c","u","m","e","n","t","a","t","i","o","n">>,
     keywords |-> <<<<"d","o","c","u","m","e","n","t">>, <<"d","o","c","s">>, <<"r","e","a","d","m","e">>, <<"a","p","i">>>>],
    [category |-> <<"t","a","s","k","s">>, subcategory |-> <<"d","e","p","l","o","y","m","e","n","t">>,
     keywords |-> <<<<"d","e","p","l","o","y">>, <<"c","i","/","c","d">>, <<"d","o","c","k","e","r">>, <<"k","u","b","e","r","n","e","t","e","s">>>>],
    [category |-> <<"t","a","s","k","s">>, subcategory |-> <<"a","u","t","o","m","a","t","i","o","n">>,
     keywords |-> <<<<"a","u","t","o","m","a","t","e">>, <<"a","u","t","o","m","a","t","i","o","n">>, <<"w","o","r","k","f","l","o","w">>, <<"p","i","p","e","l","i","n","e">>>>],
    [category |-> <<"s","p","e","c","i","a","l","i","z","e","d">>, subcategory |-> <<"d","e","v","o","p","s">>,
     keywords |-> <<<<"d","e","v","o","p","s">>, <<"i","n","f","r","a","s","t","r","u","c","t","u","r","e">>, <<"t","e","r","r","a","f","o","r","m">>, <<"a","n","s","i","b","l","e">>>>],
    [category |-> <<"s","p","e","c","i","a","l","i","z","e","d">>, subcategory |-> <<"d","a","t","a">>,
     keywords |-> <<<<"d","a","t","a">>, <<"a","n","a","l","y","s","i","s">>, <<"m","l">>, <<"a","i">>, <<"s","c","i","e","n","c","e">>, <<"p","a","n","d","a","s">>>>],
    [category |-> <<"s","p","e","c","i","a","l","i","z","e","d">>, subcategory |-> <<"m","o","b","i","l","e">>,
     keywords |-> <<<<"m","o","b","i","l","e">>, <<"i","o","s">>, <<"a","n","d","r","o","i","d">>, <<"r","e","a","c","t","-","n","a","t","i","v","e">>, <<"f","l","u","t","t","e","r">>>>],
    [category |-> <<"s","p","e","c","i","a","l","i","z","e","d">>, subcategory |-> <<"c","l","o","u","d">>,
     keywords |-> <<<<"a","w","s">>, <<"a","z","u","r","e">>, <<"g","c","p">>, <<"c","l","o","u","d">>, <<"s","e","r","v","e","r","l","e","s","s">>>>],
    [category |-> <<"s","p","e","c","i","a","l","i","z","e","d">>, subcategory |-> <<"d","a","t","a","b","a","s","e">>,
     keywords |-> <<<<"d","a","t","a","b","a","s","e">>, <<"s","q","l">>, <<"n","o","s","q","l">>, <<"p","o","s","t","g","r","e","s">>, <<"m","o","n","g","o","d","b">>>>],
    [category |-> <<"s","p","e","c","i","a","l","i","z","e","d">>, subcategory |-> <<"f","r","o","n","t","e","n","d">>,
     keywords |-> <<<<"f","r","o","n","t","e","n","d">>, <<"u","i">>, <<"u","x">>, <<"c","s","s">>, <<"d","e","s","i","g","n">>>>],
    [category |-> <<"s","p","e","c","i","a","l","i","z","e","d">>, subcategory |-> <<"b","a","c","k","e","n","d">>,
     keywords |-> <<<<"b","a","c","k","e","n","d">>, <<"a","p","i">>, <<"s","e","r","v","e","r">>, <<"m","i","c","r","o","s","e","r","v","i","c","e">>>>],
    [category |-> <<"s","p","e","c","i","a","l","i","z","e","d">>, subcategory |-> <<"b","l","o","c","k","c","h","a","i","n">>,
     keywords |-> <<<<"b","l","o","c","k","c","h","a","i","n">>, <<"c","r","y","p","t","o">>, <<"w","e","b","3">>, <<"s","o","l","i","d","i","t","y">>>>],
    [category |-> <<"s","p","e","c","i","a","l","i","z","e","d">>, subcategory |-> <<"g","a","m","e">>,
     keywords |-> <<<<"g","a","m","e">>, <<"u","n","i","t","y">>, <<"u","n","r","e","a","l">>, <<"g","o","d","o","t">>>>],
    [category |-> <<"s","p","e","c","i","a","l","i","z","e","d">>, subcategory |-> <<"i","o","t">>,
     keywords |-> <<<<"i","o","t">>, <<"e","m","b","e","d","d","e","d">>, <<"a","r","d","u","i","n","o">>, <<"r","a","s","p","b","e","r","r","y">>>>] >>
\* the (category, subcategory) save_deduplicated_collection files a name under
ID_category(name) ==
    LET name_lower == Lower(name)
        hits == {n \in DOMAIN save_rules :
                    \E k \in DOMAIN save_rules[n].keywords :
                        Contains(name_lower, save_rules[n].keywords[k])}
    IN IF hits = {} THEN <<SPECIALIZED, GENERAL>>
       ELSE LET n == CHOOSE h \in hits : \A m \in hits : h <= m
            IN <<save_rules[n].category, save_rules[n].subcategory>>

\* ID_category of the names of the documents on disk, tabulated once
ID_category_table == [name \in StemsOnDisk |-> ID_category(name)]

\* the entry of saved_agents for the i-th agent of the sorted unique_agents
ID_saved_agent(i, agent) ==
    [id |-> i,
     name |-> agent.name,
     category |-> ID_category_table[agent.name][1],
     subcategory |-> ID_category_table[agent.name][2],
     quality_score |-> agent.quality_score]

\* AgentCollector.calculate_quality_score
AC_calculate_quality_score(agent) ==
    LET content_length == Len(agent.content)
        header == IF agent.yaml_frontmatter.keys # {}
                  THEN 10
                       + (IF "name" \in agent.yaml_frontmatter.keys THEN 5 ELSE 0)
                       + (IF "description" \in agent.yaml_frontmatter.keys THEN 5 ELSE 0)
                       + (IF "tools" \in agent.yaml_frontmatter.keys THEN 5 ELSE 0)
                  ELSE 0
        length == (IF content_length > 500 THEN 5 ELSE 0)
                  + (IF content_length > 1000 THEN 5 ELSE 0)
                  + (IF content_length > 2000 THEN 5 ELSE 0)
        structure == (IF Contains(agent.content, M_H2_SP) THEN 3 ELSE 0)
                     + (IF Contains(agent.content, M_H3_SP) THEN 2 ELSE 0)
        code == IF Contains(agent.content, M_FENCE) THEN 5 ELSE 0
        RECURSIVE Instructions(_)
        Instructions(n) ==
            IF n = 0 THEN 0
            ELSE Instructions(n - 1)
                 + (IF Contains(Lower(agent.content), Lower(instruction_keywords[n]))
                    THEN 2 ELSE 0)
    IN header + length + structure + code + Instructions(Len(instruction_keywords))

\* the score categorize_agent accumulates for one taxonomy entry
KeywordScore(entry, name_lower, desc_lower, content_lower) ==
    LET RECURSIVE Sum(_)
        Sum(n) ==
            IF n = 0 THEN 0
            ELSE Sum(n - 1)
                 + (IF Contains(name_lower, entry.keywords[n]) THEN 3 ELSE 0)
                 + (IF Contains(desc_lower, entry.keywords[n]) THEN 2 ELSE 0)
                 + (IF Contains(content_lower, entry.keywords[n]) THEN 1 ELSE 0)
    IN Sum(Len(entry.keywords))

\* BetterEntry with 'if score >= best_score': of the entries tied at the
\* best score the last one wins
BetterEntry_last_wins(best, score, n) == IF score >= best[1] THEN <<score, n>> ELSE best

\* AgentCollector.categorize_agent: <<category, subcategory>>
\* 'if score > best_score': <<best_score, index of the best entry>> after
\* entry n has scored score
BetterEntry(best, score, n) == IF score > best[1] THEN <<score, n>> ELSE best

\* the two nested loops of categorize_agent over the first n entries:
\* <<best_score, index of the best entry or 0>>
RECURSIVE BestEntry(_, _, _, _, _)
BestEntry(entries, n, name_lower, desc_lower, content_lower) ==
    IF n = 0 THEN <<0, 0>>
    ELSE BetterEntry(BestEntry(entries, n - 1, name_lower, desc_lower, content_lower),
                     KeywordScore(entries[n], name_lower, desc_lower, content_lower), n)

\* best_category, best_subcategory
BestCategory(entries, best) ==
    IF best[2] = 0 THEN <<SPECIALIZED, GENERAL>>
    ELSE <<entries[best[2]].category, entries[best[2]].subcategory>>

\* categorize_agent over a taxonomy given as its entries
CategoryIn(entries, agent) ==
    BestCategory(entries,
                 BestEntry(entries, Len(entries), Lower(agent.name), Lower(agent.description),
                           Lower(Take(agent.content, ClassifierPrefix))))

categorize_agent(agent) == CategoryIn(categories, agent)

\* AgentCollector.similarity_score as an exact fraction: the weights 0.3, 0.2
\* and 0.5 are 3, 2 and 5 tenths.  (For the documents on disk the sum computed
\* in floating point lies on the same side of 0.8 as the exact sum.)
WeightedAverage(name_sim, desc_sim, content_sim) ==
    << 3 * name_sim[1] * desc_sim[2] * content_sim[2]
       + 2 * desc_sim[1] * name_sim[2] * content_sim[2]
       + 5 * content_sim[1] * name_sim[2] * desc_sim[2],
       10 * name_sim[2] * desc_sim[2] * content_sim[2] >>
similarity_score(agent1, agent2) ==
    WeightedAverage(ratio(agent1.name, agent2.name),
                    ratio(agent1.description, agent2.description),
                    ratio(Take(agent1.content, ContentPrefix),
                          Take(agent2.content, ContentPrefix)))

\* the test of the inner loop of AgentCollector.find_duplicates, seed the
\* first agent of an existing group
AC_is_duplicate(agent, seed) == Exceeds(similarity_score(agent, seed), 8, 10)

\* file_path.name contains one of the names collect_agents skips
AC_skipped_name(file) ==
    \E n \in DOMAIN skip_names : Contains(Lower(file.stem \o file.ext), skip_names[n])

\* no header and none of the markers in content[:200]
AC_not_an_agent(file) ==
    /\ file.yaml.keys = {}
    /\ ~\E m \in {M_YOU_ARE_CAP, M_YOUR_ROLE_CAP, M_H2_SP} :
            Contains(Take(read_text(file), MarkerPrefix), m)

\* the Agent collect_agents builds from a document (content_hash, which
\* nothing reads, is left out)
\* agent.quality_score = self.calculate_quality_score(agent)
AC_scored(agent) == [agent EXCEPT !.quality_score = AC_calculate_quality_score(agent)]
\* agent.category, agent.subcategory = self.categorize_agent(agent)
AC_filed(agent, place) == [agent EXCEPT !.category = place[1], !.subcategory = place[2]]
AC_categorized(agent) == AC_filed(agent, categorize_agent(agent))
\* agent = Agent(...) in collect_agents
AC_new_agent(file) ==
    [original_path |-> file.path,
     source_repo |-> file.repo,
     name |-> YamlGet(file.yaml, "name", file.stem),
     description |-> YamlGet(file.yaml, "description", <<>>),
     content |-> read_text(file),
     yaml_frontmatter |-> extract_yaml(file)[1],
     tools |-> YamlGet(file.yaml, "tools", <<>>),
     category |-> <<>>,
     subcategory |-> <<>>,
     agent_id |-> 0,
     quality_score |-> 0]
AC_Agent(file) == AC_categorized(AC_scored(AC_new_agent(file)))

\* The agents of the documents on disk and the duplicate test between them,
\* tabulated once (see ID_loaded).
AC_loaded == [p \in DOMAIN Documents |-> AC_Agent(Documents[p])]
\* the try block of collect_agents raises for the document: read_text does,
\* or .lower() of a name or a description that is None in categorize_agent
AC_raises(file) ==
    read_raises(file) \/ IsNone(file.yaml, "name") \/ IsNone(file.yaml, "description")
AC_duplicate_table ==
    [p \in Paths |-> [q \in Paths |-> AC_is_duplicate(AC_loaded[p], AC_loaded[q])]]
AC_matches(agent, seed) == AC_duplicate_table[agent.original_path][seed.original_path]

\* the agents collect_agents appends for the documents fs: pattern by
\* pattern, the documents of each pattern in directory order
AC_collected(fs) ==
    LET Wanted(f) == ~AC_skipped_name(f) /\ ~AC_raises(f) /\ ~AC_not_an_agent(f)
        RECURSIVE ByPattern(_)
        ByPattern(n) ==
            IF n = 0 THEN <<>>
            ELSE ByPattern(n - 1)
                 \o SelectSeq(fs, LAMBDA f : f.ext = glob_patterns[n] /\ Wanted(f))
        kept == ByPattern(Len(glob_patterns))
    IN [i \in DOMAIN kept |-> AC_loaded[kept[i].path]]

\* AC_groups without the break: the agent joins the last group whose seed it
\* matches
\* the group ids in hits visited, the agent is put into the group found (0:
\* found_group is False and the agent opens a group of its own)
AC_placed(groups, agent, found) ==
    IF found = 0 THEN Append(groups, <<agent>>)
    ELSE [groups EXCEPT ![found] = Append(@, agent)]

\* the last of the groups hits, 0 if there is none
LastOf(hits) == IF hits = {} THEN 0 ELSE CHOOSE h \in hits : \A m \in hits : h >= m

RECURSIVE AC_groups_last_match(_, _, _)
AC_groups_last_match(agents, i, groups) ==
    IF i > Len(agents) THEN groups
    ELSE AC_groups_last_match(agents, i + 1,
            AC_placed(groups, agents[i],
                      LastOf({g \in DOMAIN groups : AC_matches(agents[i], groups[g][1])})))

\* the first loop of AgentCollector.find_duplicates from index i on: the
\* groups dictionary as the sequence of its values in the order of their keys
\* the first of the groups hits, at which the inner loop breaks; 0 if there
\* is none
FirstOf(hits) == IF hits = {} THEN 0 ELSE CHOOSE h \in hits : \A m \in hits : h <= m

RECURSIVE AC_groups(_, _, _)
AC_groups(agents, i, groups) ==
    IF i > Len(agents) THEN groups
    ELSE AC_groups(agents, i + 1,
            AC_placed(groups, agents[i],
                      FirstOf({g \in DOMAIN groups : AC_matches(agents[i], groups[g][1])})))

\* AC_selected that extends duplicates with the whole group
RECURSIVE AC_selected_all_duplicates(_, _)
AC_selected_all_duplicates(groups, n) ==
    IF n = 0 THEN <<<<>>, <<>>>>
    ELSE LET before == AC_selected_all_duplicates(groups, n - 1)
             sorted == SortByScore(groups[n])
         IN IF Len(groups[n]) > 1
            THEN <<Append(before[1], sorted[1]), before[2] \o sorted>>
            ELSE <<Append(before[1], groups[n][1]), before[2]>>

\* the second loop of AgentCollector.find_duplicates over the first n groups:
\* what it appends to <<unique_agents, duplicates>>
RECURSIVE AC_selected(_, _)
AC_selected(groups, n) ==
    IF n = 0 THEN <<<<>>, <<>>>>
    ELSE LET before == AC_selected(groups, n - 1)
             sorted == SortByScore(groups[n])
         IN IF Len(groups[n]) > 1
            THEN <<Append(before[1], sorted[1]), before[2] \o Tail(sorted)>>
            ELSE <<Append(before[1], groups[n][1]), before[2]>>

\* (a.category, a.subcategory, a.name) < (b.category, b.subcategory, b.name)
AC_key_less(a, b) ==
    \/ StrLess(a.category, b.category)
    \/ a.category = b.category /\ StrLess(a.subcategory, b.subcategory)
    \/ a.category = b.category /\ a.subcategory = b.subcategory /\ StrLess(a.name, b.name)

\* list.sort(key=lambda x: (x.category, x.subcategory, x.name)): stable
RECURSIVE SortByCategory(_)
InsertByCategory(sorted, x) ==
    LET after == {n \in 1..Len(sorted) : ~AC_key_less(x, sorted[n])}
        k == IF after = {} THEN 0 ELSE CHOOSE n \in after : \A m \in after : m <= n
    IN SubSeq(sorted, 1, k) \o <<x>> \o SubSeq(sorted, k + 1, Len(sorted))
SortByCategory(s) ==
    IF s = <<>> THEN <<>>
    ELSE InsertByCategory(SortByCategory(SubSeq(s, 1, Len(s) - 1)), s[Len(s)])

\* ------------------------------------------------------------------- state
VARIABLES
    files,                \* the documents on disk, in the order the loaders meet them
    id_pc,                \* the last method of the IntelligentDeduplicator that returned
    id_runs,              \* how many times select_best_from_groups has run
    id_all_agents,        \* IntelligentDeduplicator.all_agents
    id_duplicate_groups,  \* IntelligentDeduplicator.duplicate_groups (values, by group_id)
    id_unique_agents,     \* IntelligentDeduplicator.unique_agents
    id_decision_log,      \* IntelligentDeduplicator.decision_log
    id_log,               \* deduplication_log.json as save_deduplicated_collection wrote it
    id_index,             \* the 'agents' of agents-index.json as it wrote them
    ac_pc,                \* the last method of the AgentCollector that returned
    ac_runs,              \* how many times AgentCollector.find_duplicates has run
    ac_all_agents,        \* AgentCollector.all_agents
    ac_groups,            \* the local groups of find_duplicates after its first loop
    ac_unique_agents,     \* AgentCollector.unique_agents
    ac_duplicates,        \* AgentCollector.duplicates
    ac_index,             \* agents-index.json as create_index wrote it
    fn,                   \* the function called on its own ("none" before the call)
    arg1,                 \* the name it is called with
    arg2,                 \* the second name, of a function of two names
    doc,                  \* the document it is called with, as the shelf describes it
    rec,                  \* the Agent it is called with, as the call left it
    ret,                  \* what the call returned
    raw,                  \* the text it is called with (NoText: none)
    qc_pc,                \* where QuickCollector.run is
    qc_futures,           \* the futures of collect_all: the document, done, the result
    qc_yielded,           \* the futures as_completed has handed to collect_all
    qc_agents,            \* QuickCollector.agents
    qc_unique,            \* QuickCollector.unique: the items in insertion order
    qc_index,             \* agents-index.json as organize wrote it
    si_pc,                \* where the SmartAgentInstaller is
    si_cache,             \* the cache file of the project: agent-cache.json
    si_agents_dir,        \* the names of the files in .claude/agents of the project
    si_fetch,             \* what the fetch of the index came to
    si_agent_index,       \* SmartAgentInstaller.agent_index
    si_installed_agents,  \* SmartAgentInstaller.installed_agents
    si_prompt,            \* the prompt auto_install is called with
    si_result,            \* what auto_install returned
    gr_done,              \* the groupers that have run
    gr_dup,               \* a duplicate predicate: the pairs of records it holds of
    gr_records,           \* the records the two groupers are given, in input order
    gr_seed_scan,         \* the groups of the seed-scan grouper
    gr_incremental        \* the groups of the incremental grouper

id_vars == <<id_pc, id_runs, id_all_agents, id_duplicate_groups, id_unique_agents,
             id_decision_log, id_log, id_index>>
ac_vars == <<ac_pc, ac_runs, ac_all_agents, ac_groups, ac_unique_agents, ac_duplicates,
             ac_index>>
call_vars == <<fn, arg1, arg2, doc, rec, ret, raw>>
qc_vars == <<qc_pc, qc_futures, qc_yielded, qc_agents, qc_unique, qc_index>>
si_vars == <<si_pc, si_cache, si_agents_dir, si_fetch, si_agent_index, si_installed_agents,
             si_prompt, si_result>>
gr_vars == <<gr_done, gr_dup, gr_records, gr_seed_scan, gr_incremental>>
vars == <<files, id_vars, ac_vars, call_vars, qc_vars, si_vars, gr_vars>>

NoLog == [original_count |-> 0, unique_count |-> 0, duplicate_groups |-> 0,
          decisions |-> <<>>]
NoIndex == [total_agents |-> 0, total_duplicates_removed |-> 0, agents |-> <<>>]

\* no text
NoText == <<"no text">>
\* no index has been written
NoQuickIndex == [total |-> 0, agents |-> <<>>]
\* no result has been returned
NoResult ==
    [raised |-> "none", analysis |-> <<>>, agents_installed |-> <<>>, agents_skipped |-> <<>>,
     message |-> "none"]
\* no cache file
NoCache == [exists |-> FALSE, json |-> FALSE, installed |-> {}]
\* no fetch has been made
NoFetch == [raises |-> "none", returncode |-> 0, stdout |-> <<>>]

\* QuickCollector.__init__
QC_new ==
    /\ qc_pc = "new"
    /\ qc_futures = <<>>
    /\ qc_yielded = {}
    /\ qc_agents = <<>>
    /\ qc_unique = <<>>
    /\ qc_index = NoQuickIndex
\* no SmartAgentInstaller has been built
NoInstaller ==
    /\ si_pc = "none"
    /\ si_cache = NoCache
    /\ si_agents_dir = {}
    /\ si_fetch = NoFetch
    /\ si_agent_index = <<>>
    /\ si_installed_agents = {}
    /\ si_prompt = <<>>
    /\ si_result = NoResult
\* the groupers have been given nothing
NoGroupers ==
    /\ gr_done = {}
    /\ gr_dup = {}
    /\ gr_records = <<>>
    /\ gr_seed_scan = <<>>
    /\ gr_incremental = <<>>
Elsewhere == QC_new /\ NoInstaller /\ NoGroupers

\* IntelligentDeduplicator.__init__ and AgentCollector.__init__
ID_AC_new ==
    /\ id_pc = "new"
    /\ id_runs = 0
    /\ id_all_agents = <<>>
    /\ id_duplicate_groups = <<>>
    /\ id_unique_agents = <<>>
    /\ id_decision_log = <<>>
    /\ id_log = NoLog
    /\ id_index = <<>>
    /\ ac_pc = "new"
    /\ ac_runs = 0
    /\ ac_all_agents = <<>>
    /\ ac_groups = <<>>
    /\ ac_unique_agents = <<>>
    /\ ac_duplicates = <<>>
    /\ ac_index = NoIndex
New == Elsewhere /\ ID_AC_new

\* no function has been called on its own
NoCall ==
    /\ fn = "none" /\ arg1 = <<>> /\ arg2 = <<>> /\ doc = NoDocument /\ rec = 0 /\ ret = 0
    /\ raw = NoText

Init == files \in FileLists(MaxFiles) /\ New /\ NoCall

\* IntelligentDeduplicator.load_agents
load_agents ==
    /\ id_pc = "new"
    /\ id_all_agents' = id_all_agents \o ID_collected([i \in DOMAIN files |-> Documents[files[i]]])
    /\ id_pc' = "loaded"
    /\ UNCHANGED <<call_vars, qc_vars, si_vars, gr_vars, files, id_runs, id_duplicate_groups, id_unique_agents, id_decision_log,
                   id_log, id_index, ac_vars>>

\* IntelligentDeduplicator.find_duplicates
ID_find_duplicates ==
    /\ id_pc \in {"loaded", "selected"}
    /\ id_runs < MaxRuns
    /\ id_duplicate_groups' = ID_groups(id_all_agents, 1, {}, <<>>)
    /\ id_pc' = "grouped"
    /\ UNCHANGED <<call_vars, qc_vars, si_vars, gr_vars, files, id_runs, id_all_agents, id_unique_agents, id_decision_log,
                   id_log, id_index, ac_vars>>

\* IntelligentDeduplicator.select_best_from_groups
select_best_from_groups ==
    /\ id_pc = "grouped"
    /\ LET in_groups == UNION {PathsOf(id_duplicate_groups[g]) : g \in DOMAIN id_duplicate_groups}
           singles == SelectSeq(id_all_agents, LAMBDA a : a.path \notin in_groups)
           sorted == [g \in DOMAIN id_duplicate_groups |-> SortByScore(id_duplicate_groups[g])]
       IN /\ id_duplicate_groups' = sorted
          /\ id_unique_agents' = id_unique_agents \o singles
                                 \o [g \in DOMAIN sorted |-> sorted[g][1]]
          /\ id_decision_log' = id_decision_log
                                \o [g \in DOMAIN sorted |-> ID_decision(sorted[g])]
    /\ id_runs' = id_runs + 1
    /\ id_pc' = "selected"
    /\ UNCHANGED <<call_vars, qc_vars, si_vars, gr_vars, files, id_all_agents, id_log, id_index, ac_vars>>

\* IntelligentDeduplicator.save_deduplicated_collection
save_deduplicated_collection ==
    /\ id_pc = "selected"
    /\ LET sorted == SortByName(id_unique_agents)
       IN /\ id_unique_agents' = sorted
          /\ id_index' = [i \in DOMAIN sorted |-> ID_saved_agent(i, sorted[i])]
          /\ id_log' = [original_count |-> Len(id_all_agents),
                        unique_count |-> Len(sorted),
                        duplicate_groups |-> Len(id_duplicate_groups),
                        decisions |-> id_decision_log]
    /\ id_pc' = "saved"
    /\ UNCHANGED <<call_vars, qc_vars, si_vars, gr_vars, files, id_runs, id_all_agents, id_duplicate_groups, id_decision_log,
                   ac_vars>>

\* AgentCollector.collect_agents
collect_agents ==
    /\ ac_pc = "new"
    /\ ac_all_agents' = ac_all_agents \o AC_collected([i \in DOMAIN files |-> Documents[files[i]]])
    /\ ac_pc' = "collected"
    /\ UNCHANGED <<call_vars, qc_vars, si_vars, gr_vars, files, id_vars, ac_runs, ac_groups, ac_unique_agents, ac_duplicates,
                   ac_index>>

\* AgentCollector.find_duplicates
AC_find_duplicates ==
    /\ ac_pc \in {"collected", "deduplicated"}
    /\ ac_runs < MaxRuns
    /\ ac_groups' = AC_groups(ac_all_agents, 1, <<>>)
    /\ \E chosen \in {AC_selected(ac_groups', Len(ac_groups'))} :
          /\ ac_unique_agents' = ac_unique_agents \o chosen[1]
          /\ ac_duplicates' = ac_duplicates \o chosen[2]
    /\ ac_runs' = ac_runs + 1
    /\ ac_pc' = "deduplicated"
    /\ UNCHANGED <<call_vars, qc_vars, si_vars, gr_vars, files, id_vars, ac_all_agents, ac_index>>

\* AgentCollector.organize_agents
organize_agents ==
    /\ ac_pc = "deduplicated"
    /\ LET sorted == SortByCategory(ac_unique_agents)
       IN ac_unique_agents' = [i \in DOMAIN sorted |-> [sorted[i] EXCEPT !.agent_id = i]]
    /\ ac_pc' = "organized"
    /\ UNCHANGED <<call_vars, qc_vars, si_vars, gr_vars, files, id_vars, ac_runs, ac_all_agents, ac_groups, ac_duplicates,
                   ac_index>>

\* AgentCollector.create_index
create_index ==
    /\ ac_pc = "organized"
    /\ ac_index' = [total_agents |-> Len(ac_unique_agents),
                    total_duplicates_removed |-> Len(ac_duplicates),
                    agents |-> [i \in DOMAIN ac_unique_agents |->
                                   [id |-> ac_unique_agents[i].agent_id,
                                    name |-> ac_unique_agents[i].name,
                                    description |-> ac_unique_agents[i].description,
                                    category |-> ac_unique_agents[i].category,
                                    subcategory |-> ac_unique_agents[i].subcategory,
                                    tools |-> ac_unique_agents[i].tools,
                                    source |-> ac_unique_agents[i].source_repo,
                                    quality_score |-> ac_unique_agents[i].quality_score]]]
    /\ ac_pc' = "indexed"
    /\ UNCHANGED <<call_vars, qc_vars, si_vars, gr_vars, files, id_vars, ac_runs, ac_all_agents, ac_groups, ac_unique_agents,
                   ac_duplicates>>

Next ==
    \/ load_agents
    \/ ID_find_duplicates
    \/ select_best_from_groups
    \/ save_deduplicated_collection
    \/ collect_agents
    \/ AC_find_duplicates
    \/ organize_agents
    \/ create_index

Spec == Init /\ [][Next]_vars

\* ------------------------------------------- QuickCollector (quick_collect.py)
\* content[:500], the part of a text process_file looks for markers in and
\* categorize_simple looks for keywords in
QuickPrefix == 500
\* content[:50], where process_file looks for the opening of a header
HeaderWindow == 50
\* lines[:20], the lines process_file looks for a name in
NameLines == 20
\* content[:1000], the part of a text content_hash is the digest of
HashPrefix == 1000

NEWLINE == <<"\n">>
DASHES == <<"-","-","-">>
NAME_COLON == <<"n","a","m","e",":">>
quick_markers == <<NAME_COLON, <<"d","e","s","c","r","i","p","t","i","o","n",":">>,
                   <<"y","o","u"," ","a","r","e">>, <<"y","o","u","r"," ","r","o","l","e">>,
                   DASHES>>
quick_skip_names == SubSeq(skip_names, 1, 4)

\* str.strip(chars): the characters of the set removed from both ends
RECURSIVE LStripChars(_, _)
LStripChars(s, chars) ==
    IF s # <<>> /\ Head(s) \in chars THEN LStripChars(Tail(s), chars) ELSE s
RECURSIVE RStripChars(_, _)
RStripChars(s, chars) ==
    IF s # <<>> /\ s[Len(s)] \in chars THEN RStripChars(SubSeq(s, 1, Len(s) - 1), chars) ELSE s
StripChars(s, chars) == RStripChars(LStripChars(s, chars), chars)
\* str.strip(): white space removed from both ends
WhiteSpace == {" ", "\n", "\t", "\r"}
StripSpace(s) == StripChars(s, WhiteSpace)

\* s.split('\n')[:n]: the first n lines of s
RECURSIVE FirstLines(_, _)
FirstLines(s, n) ==
    IF n = 0 THEN <<>>
    ELSE IF ~Contains(s, NEWLINE) THEN <<s>>
    ELSE <<Take(s, Find(s, NEWLINE))>> \o FirstLines(Drop(s, Find(s, NEWLINE) + 1), n - 1)

\* line.split(':', 1)[1]: what follows the first colon of the line
AfterColon(line) == Drop(line, Find(line, <<":">>) + 1)

\* the name process_file gives a document: the file stem, or, when the first
\* 50 characters hold '---', what follows the colon of the first of the
\* first 20 lines that holds 'name:', stripped of white space and quotes
QC_name_line(lines) ==
    IF \E i \in DOMAIN lines : Contains(Lower(lines[i]), NAME_COLON)
    THEN CHOOSE i \in DOMAIN lines :
            /\ Contains(Lower(lines[i]), NAME_COLON)
            /\ \A j \in 1..(i - 1) : ~Contains(Lower(lines[j]), NAME_COLON)
    ELSE 0
QC_name_in(lines, hit, stem) ==
    IF hit = 0 THEN stem
    ELSE StripChars(StripSpace(AfterColon(lines[hit])), {"\"", "'"})
QC_name_of(lines, stem) == QC_name_in(lines, QC_name_line(lines), stem)
QC_name(stem, content) ==
    IF Contains(Take(content, HeaderWindow), DASHES)
    THEN QC_name_of(FirstLines(content, NameLines), stem)
    ELSE stem

\* none of the markers in content[:500].lower(): process_file returns None
QC_not_an_agent(content) ==
    ~\E m \in DOMAIN quick_markers : Contains(Lower(Take(content, QuickPrefix)), quick_markers[m])

\* hashlib.md5(content[:1000].encode()).hexdigest(): the digest stands for
\* the text it is the digest of (two texts have the same digest when they
\* are the same text), and so do the first 8 digits of the digest that
\* deduplicate keys by
md5_hexdigest(text) == text
content_hash(content) == md5_hexdigest(Take(content, HashPrefix))

languages == <<
    [name |-> <<"p","y","t","h","o","n">>,
     keywords |-> <<<<"p","y","t","h","o","n">>, <<"p","y">>, <<"d","j","a","n","g","o">>, <<"f","l","a","s","k">>>>],
    [name |-> <<"j","a","v","a","s","c","r","i","p","t">>,
     keywords |-> <<<<"j","a","v","a","s","c","r","i","p","t">>, <<"j","s">>, <<"n","o","d","e">>, <<"r","e","a","c","t">>, <<"v","u","e">>>>],
    [name |-> <<"t","y","p","e","s","c","r","i","p","t">>,
     keywords |-> <<<<"t","y","p","e","s","c","r","i","p","t">>, <<"t","s">>, <<"a","n","g","u","l","a","r">>>>],
    [name |-> <<"j","a","v","a">>,
     keywords |-> <<<<"j","a","v","a">>, <<"s","p","r","i","n","g">>>>],
    [name |-> <<"c","s","h","a","r","p">>,
     keywords |-> <<<<"c","#">>, <<"c","s","h","a","r","p">>, <<"d","o","t","n","e","t">>>>],
    [name |-> <<"r","u","s","t">>,
     keywords |-> <<<<"r","u","s","t">>, <<"c","a","r","g","o">>>>],
    [name |-> <<"g","o">>,
     keywords |-> <<<<"g","o">>, <<"g","o","l","a","n","g">>>>],
    [name |-> <<"r","u","b","y">>,
     keywords |-> <<<<"r","u","b","y">>, <<"r","a","i","l","s">>>>],
    [name |-> <<"p","h","p">>,
     keywords |-> <<<<"p","h","p">>, <<"l","a","r","a","v","e","l">>>>] >>
tasks == <<
    [name |-> <<"t","e","s","t","i","n","g">>,
     keywords |-> <<<<"t","e","s","t">>, <<"t","d","d">>, <<"j","e","s","t">>, <<"p","y","t","e","s","t">>>>],
    [name |-> <<"d","e","b","u","g","g","i","n","g">>,
     keywords |-> <<<<"d","e","b","u","g">>, <<"f","i","x">>, <<"b","u","g">>>>],
    [name |-> <<"r","e","f","a","c","t","o","r","i","n","g">>,
     keywords |-> <<<<"r","e","f","a","c","t","o","r">>, <<"o","p","t","i","m","i","z","e">>, <<"c","l","e","a","n">>>>],
    [name |-> <<"s","e","c","u","r","i","t","y">>,
     keywords |-> <<<<"s","e","c","u","r","i","t","y">>, <<"a","u","d","i","t">>, <<"v","u","l","n","e","r","a","b","i","l","i","t","y">>>>],
    [name |-> <<"d","e","p","l","o","y","m","e","n","t">>,
     keywords |-> <<<<"d","e","p","l","o","y">>, <<"c","i","/","c","d">>, <<"d","o","c","k","e","r">>>>],
    [name |-> <<"d","o","c","u","m","e","n","t","a","t","i","o","n">>,
     keywords |-> <<<<"d","o","c","u","m","e","n","t">>, <<"d","o","c","s">>, <<"r","e","a","d","m","e">>>>] >>
frontend_keywords == <<<<"r","e","a","c","t">>, <<"v","u","e">>, <<"a","n","g","u","l","a","r">>, <<"n","e","x","t">>, <<"n","u","x","t">>>>
backend_keywords == <<<<"e","x","p","r","e","s","s">>, <<"f","a","s","t","a","p","i">>, <<"d","j","a","n","g","o">>, <<"f","l","a","s","k">>>>
Q_LANGUAGES == <<"l","a","n","g","u","a","g","e","s">>
Q_TASKS == <<"t","a","s","k","s">>
Q_FRAMEWORKS == <<"f","r","a","m","e","w","o","r","k","s">>
Q_FRONTEND == <<"f","r","o","n","t","e","n","d">>
Q_BACKEND == <<"b","a","c","k","e","n","d">>

\* any(k in combined for k in keywords)
AnyKeyword(keywords, combined) == \E k \in DOMAIN keywords : Contains(combined, keywords[k])
\* the first entry of the table one of whose keywords is in combined, 0 when
\* there is none: the loop over table.items() that returns at the first hit
FirstHit(table, combined) ==
    IF \E i \in DOMAIN table : AnyKeyword(table[i].keywords, combined)
    THEN CHOOSE i \in DOMAIN table :
            /\ AnyKeyword(table[i].keywords, combined)
            /\ \A j \in 1..(i - 1) : ~AnyKeyword(table[j].keywords, combined)
    ELSE 0
\* combined = name_lower + " " + content_lower
QC_combined(name, content) == Lower(name) \o <<" ">> \o Lower(Take(content, QuickPrefix))

\* the number of keywords of the entry that are in combined
KeywordHits(keywords, combined) ==
    Cardinality({k \in DOMAIN keywords : Contains(combined, keywords[k])})
\* the first of the entries of the table with the most keywords in combined
MostHits(table, combined) ==
    IF \E i \in DOMAIN table : AnyKeyword(table[i].keywords, combined)
    THEN CHOOSE i \in DOMAIN table :
            /\ \A j \in DOMAIN table :
                   KeywordHits(table[j].keywords, combined) <= KeywordHits(table[i].keywords, combined)
            /\ \A j \in 1..(i - 1) :
                   KeywordHits(table[j].keywords, combined) < KeywordHits(table[i].keywords, combined)
    ELSE 0

\* what categorize_simple returns for the hits l among the languages and t
\* among the tasks
QC_filed(l, t, combined) ==
    IF l # 0 THEN <<Q_LANGUAGES, languages[l].name>>
    ELSE IF t # 0 THEN <<Q_TASKS, tasks[t].name>>
    ELSE IF AnyKeyword(frontend_keywords, combined) THEN <<Q_FRAMEWORKS, Q_FRONTEND>>
    ELSE IF AnyKeyword(backend_keywords, combined) THEN <<Q_FRAMEWORKS, Q_BACKEND>>
    ELSE <<SPECIALIZED, GENERAL>>
categorize_combined(combined) ==
    QC_filed(FirstHit(languages, combined), FirstHit(tasks, combined), combined)
\* categorize_simple where each loop returns the entry with the most
\* keywords in the text instead of the first entry with one
categorize_simple_most_hits(name, content) ==
    QC_filed(MostHits(languages, QC_combined(name, content)),
             MostHits(tasks, QC_combined(name, content)), QC_combined(name, content))
\* QuickCollector.categorize_simple(name, content)
categorize_simple(name, content) == categorize_combined(QC_combined(name, content))

\* --------------------------------------------- the header of a document
\* yaml.safe_load(text) on the texts a header block can hold here: lines
\* 'key: value' make a mapping, lines '- item' and a line '[a, b]' a list,
\* other lines a plain scalar; no line at all gives None; a tab at the
\* start of a line, a flow sequence that is not closed, a second ': ' in a
\* value or a mixture of the kinds of line raises yaml.YAMLError.
\* A loaded value is [raised, kind, items]: kind "none", "mapping" (items
\* the <<key, value>> pairs), "list" (items the values) or "scalar" (items
\* the one text).
COLON_SP == <<":"," ">>
ITEM_SP == <<"-"," ">>
NoValue == [raised |-> FALSE, kind |-> "none", items |-> <<>>]
Raised == [raised |-> TRUE, kind |-> "none", items |-> <<>>]
EmptyMapping == [raised |-> FALSE, kind |-> "mapping", items |-> <<>>]
\* the lines of the text that are not blank
YamlLines(t) == SelectSeq(FirstLines(t, Len(t) + 1), LAMBDA l : StripChars(l, {" "}) # <<>>)
IsItemLine(l) == StartsWith(l, ITEM_SP)
IsFlowLine(l) == StartsWith(l, <<"[">>)
IsEntryLine(l) ==
    /\ ~IsItemLine(l) /\ ~IsFlowLine(l)
    /\ Contains(l, <<":">>)
    /\ Find(l, <<":">>) > 0
    /\ Find(l, <<":">>) + 1 = Len(l) \/ l[Find(l, <<":">>) + 2] = " "
EntryKey(l) == Take(l, Find(l, <<":">>))
EntryValue(l) == StripSpace(AfterColon(l))
\* a line no YAML document can hold
BadLine(l) ==
    \/ Head(l) = "\t"
    \/ IsFlowLine(l) /\ l[Len(l)] # "]"
    \/ IsEntryLine(l) /\ Contains(EntryValue(l), COLON_SP)
    \/ IsEntryLine(l) /\ StartsWith(EntryValue(l), <<"[">>) /\ l[Len(l)] # "]"
\* what follows '- '
ItemValue(l) == StripSpace(Drop(l, 2))
Entries(lines) == [i \in DOMAIN lines |-> <<EntryKey(lines[i]), EntryValue(lines[i])>>]
Items(lines) == [i \in DOMAIN lines |-> ItemValue(lines[i])]
RECURSIVE JoinWords(_)
JoinWords(lines) ==
    IF Len(lines) = 1 THEN StripSpace(lines[1])
    ELSE StripSpace(lines[1]) \o <<" ">> \o JoinWords(Tail(lines))
safe_load_lines(lines) ==
    IF lines = <<>> THEN NoValue
    ELSE IF \E i \in DOMAIN lines : BadLine(lines[i]) THEN Raised
    ELSE IF \A i \in DOMAIN lines : IsEntryLine(lines[i])
         THEN [raised |-> FALSE, kind |-> "mapping", items |-> Entries(lines)]
    ELSE IF \A i \in DOMAIN lines : IsItemLine(lines[i])
         THEN [raised |-> FALSE, kind |-> "list", items |-> Items(lines)]
    ELSE IF Len(lines) = 1 /\ IsFlowLine(lines[1])
         THEN [raised |-> FALSE, kind |-> "list",
               items |-> IF Len(lines[1]) = 2 THEN <<>> ELSE <<lines[1]>>]
    ELSE IF \A i \in DOMAIN lines :
                ~IsEntryLine(lines[i]) /\ ~IsItemLine(lines[i]) /\ ~IsFlowLine(lines[i])
         THEN [raised |-> FALSE, kind |-> "scalar", items |-> <<JoinWords(lines)>>]
    ELSE Raised
safe_load(t) == safe_load_lines(YamlLines(t))

\* the plain scalars that YAML resolves to None, False and 0
FalsyScalars == {<<"~">>, <<"n","u","l","l">>, <<"f","a","l","s","e">>, <<"0">>}
\* bool(value): 'yaml_data or {}' keeps the value
Truthy(value) ==
    /\ value.kind # "none"
    /\ value.items # <<>>
    /\ value.kind = "scalar" => value.items[1] \notin FalsyScalars

\* what a call of the parser comes to: an exception, or the pair it returns
Returned(header, body) == [raised |-> FALSE, header |-> header, body |-> body]
Propagated == [raised |-> TRUE, header |-> EmptyMapping, body |-> <<>>]
\* return yaml_data or {}, parts[2].strip()
Parsed(loaded, rest) == Returned(IF Truthy(loaded) THEN loaded ELSE EmptyMapping, StripSpace(rest))
\* the try block of the parser without its except clause
TryParse_no_except(loaded, rest, content) ==
    IF loaded.raised THEN Propagated ELSE Parsed(loaded, rest)
\* try: ... except: pass, and the return at the end of the method
TryParse(loaded, rest, content) ==
    IF loaded.raised THEN Returned(EmptyMapping, content) ELSE Parsed(loaded, rest)
\* parts = content.split('---', 2) of a content that starts with '---':
\* parts[1] and parts[2], or <<>> when there are fewer than three parts
HeaderParts(content) ==
    IF Contains(Drop(content, 3), DASHES)
    THEN <<Take(Drop(content, 3), Find(Drop(content, 3), DASHES)),
           Drop(Drop(content, 3), Find(Drop(content, 3), DASHES) + 3)>>
    ELSE <<>>
FromParts(parts, content) ==
    IF parts = <<>> THEN Returned(EmptyMapping, content)
    ELSE TryParse(safe_load(parts[1]), parts[2], content)
\* IntelligentDeduplicator.extract_yaml(content) and
\* AgentCollector.extract_yaml_frontmatter(content), the same code
extract_yaml_frontmatter(content) ==
    IF StartsWith(content, DASHES) THEN FromParts(HeaderParts(content), content)
    ELSE Returned(EmptyMapping, content)

\* texts for the parser: without a header, with a header of each kind, and
\* with a header that is not closed or that yaml.safe_load cannot read
T_EMPTY == <<>>
T_PLAIN == <<"Y","o","u"," ","a","r","e"," ","x">>
T_HEADER == <<"-","-","-","\n","n","a","m","e",":"," ","a","a","b","b","\n","-","-","-","\n","b","o","d","y">>
T_UNCLOSED == <<"-","-","-","\n","n","a","m","e",":"," ","a","a","b","b","\n","b","o","d","y">>
T_OPEN_LIST == <<"-","-","-","\n","n","a","m","e",":"," ","[","a","\n","-","-","-","\n","b","o","d","y">>
T_EMPTY_HEADER == <<"-","-","-","\n","-","-","-","\n","b","o","d","y","\n">>
T_WORDS == <<"-","-","-","\n","j","u","s","t"," ","w","o","r","d","s","\n","-","-","-","\n","b","o","d","y">>
T_ITEMS == <<"-","-","-","\n","-"," ","a","\n","-"," ","b","\n","-","-","-","\n","b","o","d","y">>
T_NO_VALUE == <<"-","-","-","\n","n","a","m","e",":","\n","-","-","-","\n"," "," ","b","o","d","y"," "," ">>
T_TWO_COLONS == <<"-","-","-","\n","n","a","m","e",":"," ","a",":"," ","b","\n","-","-","-","\n","x">>
T_DASHES == <<"-","-","-","-","-","-">>
T_INDENTED == <<" ","-","-","-","\n","n","a","m","e",":"," ","a","\n","-","-","-","\n">>
T_ZERO == <<"-","-","-","\n","0","\n","-","-","-","\n","b","o","d","y">>
T_TAB == <<"-","-","-","\n","\t","n","a","m","e",":"," ","a","\n","-","-","-","\n","b","o","d","y">>
T_QUOTES == <<"-","-","-","\n","n","a","m","e",":"," ","\"","\"","\n","-","-","-","\n","Y","o","u"," ","a","r","e"," ","x">>
T_TOOLS == <<"-","-","-","\n","n","a","m","e",":"," ","a","a","b","b","\n","t","o","o","l","s",":"," ","[","r",","," ","w","]","\n","-","-","-","\n","\n","b","o","d","y","\n">>
RawTexts == {T_EMPTY, T_PLAIN, T_HEADER, T_UNCLOSED, T_OPEN_LIST, T_EMPTY_HEADER, T_WORDS, T_ITEMS, T_NO_VALUE, T_TWO_COLONS, T_DASHES, T_INDENTED, T_ZERO, T_TAB, T_QUOTES, T_TOOLS}


\* ------------------------------------------------ the functions on their own
\* The names the functions of a name are called with: a role name is an
\* optional numeric prefix, a stem, a separator and a word of the synonym
\* set; the other names are taken as they are.
NumericPrefixes == {<<>>, N_07_HYPHEN, N_07_UNDERSCORE}
CallStems == {N_PYTHON, N_RUST_CAP, ML, N_3}
Separators == {"-", "_"}
SynonymSet == {PRO, EXPERT, DEVELOPER, ENGINEER, SPECIALIST, ARCHITECT, ARCHITECTURE,
               TESTER, TESTING, QA, DEBUGGER, TROUBLESHOOTER, OPTIMIZER, PERFORMANCE}
RoleName(prefix, stem, sep, word) == prefix \o stem \o <<sep>> \o word
RoleNames ==
    {RoleName(p, t, sp, w) : p \in NumericPrefixes, t \in CallStems, sp \in Separators,
                             w \in SynonymSet}
PlainNames == {N_PYTHON, PRO, N_CONTEST, N_UNIT_TEST, N_APP_DEBUG, N_PYTHON_PRO_MAX,
               N_DATA_PIPELINE, N_07_PYTHON, N_PYTHON_BACKEND, N_HYPHEN_API}
CallNames == RoleNames \cup PlainNames
SecondNames == {N_PYTHON, PRO, STEM5}

\* self.get_semantic_key(name)
call_get_semantic_key ==
    /\ fn = "none"
    /\ doc = NoDocument /\ files = <<>> /\ raw = NoText
    /\ fn' = "get_semantic_key"
    /\ ret' = get_semantic_key(arg1)
    /\ UNCHANGED <<files, id_vars, ac_vars, qc_vars, si_vars, gr_vars, raw, arg1, arg2, doc, rec>>

\* self.name_similarity(arg1, arg2)
call_name_similarity ==
    /\ fn = "none"
    /\ doc = NoDocument /\ files = <<>> /\ raw = NoText
    /\ fn' = "name_similarity"
    /\ ret' = name_similarity(arg1, arg2)
    /\ UNCHANGED <<files, id_vars, ac_vars, qc_vars, si_vars, gr_vars, raw, arg1, arg2, doc, rec>>

\* ---------------------------------------------- documents built to order
\* the text of the header block yaml.safe_load reads yaml from
RECURSIVE ToolList(_)
ToolList(n) ==
    IF n = 0 THEN <<>>
    ELSE IF n = 1 THEN <<ToolNames[1]>>
    ELSE ToolList(n - 1) \o L_COMMA \o <<ToolNames[n]>>
HeaderText(yaml) ==
    IF yaml.keys = {} THEN <<>>
    ELSE L_OPEN
         \o (IF "name" \in yaml.keys THEN L_NAME \o yaml.name \o <<"\n">> ELSE <<>>)
         \o (IF "description" \in yaml.keys
             THEN L_DESCRIPTION \o yaml.description \o <<"\n">> ELSE <<>>)
         \o (IF "tools" \in yaml.keys THEN L_TOOLS \o ToolList(Len(yaml.tools)) \o L_CLOSE ELSE <<>>)
         \o L_OPEN
\* the first n section lines, and n code fences
RECURSIVE Sections(_)
Sections(n) == IF n = 0 THEN <<>> ELSE Sections(n - 1) \o SectionLines[n]
RECURSIVE Fences(_)
Fences(n) == IF n = 0 THEN <<>> ELSE Fences(n - 1) \o L_FENCE
\* the text lead, padded to length n with characters that match nothing
Padded(lead, n) == IF Len(lead) >= n THEN lead ELSE lead \o Filler(n - Len(lead))
\* the header the description d asks for, as yaml.safe_load returns it
HeaderOf(d) ==
    Yaml((IF d.name # <<>> THEN {"name"} ELSE {})
         \cup (IF d.description # <<>> THEN {"description"} ELSE {})
         \cup (IF d.tools > 0 THEN {"tools"} ELSE {}),
         d.name, d.description, Take(ToolNames, d.tools))
\* the document of header yaml that the description d asks for
Written(d, yaml, header) ==
    [path |-> 1, stem |-> d.stem, ext |-> EXT_MD, grandparent |-> <<>>, repo |-> "alpha",
     yaml |-> yaml, header |-> header,
     body |-> Padded(Sections(d.sections) \o Fences(d.fences), d.length - Len(header)) \o d.tail]
WithHeader(d, yaml) == Written(d, yaml, HeaderText(yaml))
Document(d) == WithHeader(d, HeaderOf(d))

\* Documents that differ in one signal of the quality score at a time: from
\* each of three documents (few signals, many signals, no header) the
\* documents that differ from it in the length, in the description, in the
\* tools, in the sections or in the fences.
Lengths == {400, 600, 1100, 2100, 3100}
Descriptions == {<<>>, Filler(40), Filler(60), Filler(110)}
ToolCounts == {0, 1, 3, 6}
SectionCounts == 0..4
FenceCounts == 0..4
FewSignals ==
    [stem |-> STEM5, name |-> NAME1, description |-> Filler(40), tools |-> 1,
     sections |-> 0, fences |-> 0, length |-> 400, tail |-> <<>>]
ManySignals ==
    [stem |-> STEM5, name |-> NAME1, description |-> Filler(110), tools |-> 6,
     sections |-> 4, fences |-> 4, length |-> 1100, tail |-> <<>>]
NoHeader ==
    [stem |-> STEM5, name |-> <<>>, description |-> <<>>, tools |-> 0,
     sections |-> 1, fences |-> 0, length |-> 400, tail |-> <<>>]
Variants(d) ==
    {[d EXCEPT !.length = v] : v \in Lengths}
    \cup {[d EXCEPT !.description = v] : v \in Descriptions}
    \cup {[d EXCEPT !.tools = v] : v \in ToolCounts}
    \cup {[d EXCEPT !.sections = v] : v \in SectionCounts}
    \cup {[d EXCEPT !.fences = v] : v \in FenceCounts}
ScoredDocuments ==
    Variants(FewSignals) \cup Variants(ManySignals)
    \cup {[NoHeader EXCEPT !.length = v] : v \in Lengths}
    \cup {[NoHeader EXCEPT !.sections = v] : v \in SectionCounts}
    \cup {[NoHeader EXCEPT !.fences = v] : v \in FenceCounts}
\* Documents for the classifier: file names and descriptions that hold
\* keywords of the taxonomy, with and without section lines in the body.
N_RUST_GO == <<"r","u","s","t","-","g","o">>
N_PYTHON_RUST == <<"p","y","t","h","o","n","-","r","u","s","t">>
N_GO_DEV == <<"g","o","-","d","e","v">>
D_RUST == <<"r","u","s","t">>
D_DJANGO == <<"d","j","a","n","g","o">>
ClassStems == {N_RUST_GO, N_PYTHON_RUST, N_GO_DEV, STEM5}
ClassDescriptions == {D_RUST, D_DJANGO}
ClassifiedDocuments ==
    {[NoHeader EXCEPT !.stem = t, !.sections = k] : t \in ClassStems, k \in {0, 3}}
    \cup {[NoHeader EXCEPT !.stem = t, !.description = v, !.sections = 0] :
             t \in ClassStems, v \in ClassDescriptions}
\* Documents for the light-weight classifier: names with keywords of two
\* entries, of a task, of a framework check only and in capitals, and a
\* keyword before and after the end of the content prefix.
N_JS_RUST == <<"j","s","-","r","u","s","t">>
N_NUXT_UI == <<"n","u","x","t","-","u","i">>
N_EXPRESS_API == <<"e","x","p","r","e","s","s","-","a","p","i">>
N_UNIT_TEST_FIX == <<"u","n","i","t","-","t","e","s","t","-","f","i","x">>
N_VUE_KIT == <<"V","u","e","-","K","i","t">>
D_CARGO == <<"c","a","r","g","o">>
SimpleStems == {N_JS_RUST, N_NUXT_UI, N_EXPRESS_API, N_UNIT_TEST_FIX, N_VUE_KIT}
SimpleDocuments ==
    {[NoHeader EXCEPT !.stem = t] : t \in SimpleStems}
    \cup {[NoHeader EXCEPT !.stem = N_JS_RUST, !.description = D_CARGO],
           [NoHeader EXCEPT !.name = N_NUXT_UI, !.description = D_DJANGO],
           [NoHeader EXCEPT !.length = 400, !.tail = N_PYTHON],
           [NoHeader EXCEPT !.length = 600, !.tail = N_PYTHON]}
Shelf == ScoredDocuments \cup ClassifiedDocuments \cup SimpleDocuments

\* IntelligentDeduplicator.calculate_quality_score(agent), agent the Agent
\* load_agents builds from the document
ID_call_calculate_quality_score(agent) ==
    /\ ret' = ID_calculate_quality_score(agent)
    /\ rec' = ID_examples_flagged(agent)
call_ID_calculate_quality_score ==
    /\ fn = "none"
    /\ doc # NoDocument
    /\ fn' = "ID.calculate_quality_score"
    /\ ID_call_calculate_quality_score(ID_new_agent(Document(doc)))
    /\ UNCHANGED <<files, id_vars, ac_vars, qc_vars, si_vars, gr_vars, raw, arg1, arg2, doc>>

\* AgentCollector.calculate_quality_score(agent), agent the Agent
\* collect_agents builds from the document
AC_call_calculate_quality_score(agent) ==
    /\ ret' = AC_calculate_quality_score(agent)
    /\ rec' = agent
call_AC_calculate_quality_score ==
    /\ fn = "none"
    /\ doc # NoDocument
    /\ fn' = "AC.calculate_quality_score"
    /\ AC_call_calculate_quality_score(AC_new_agent(Document(doc)))
    /\ UNCHANGED <<files, id_vars, ac_vars, qc_vars, si_vars, gr_vars, raw, arg1, arg2, doc>>

\* AgentCollector.categorize_agent(agent), agent the Agent collect_agents has
\* built from the document and scored
AC_call_categorize_agent(agent) ==
    /\ ret' = categorize_agent(agent)
    /\ rec' = agent
call_categorize_agent ==
    /\ fn = "none"
    /\ doc # NoDocument
    /\ fn' = "categorize_agent"
    /\ AC_call_categorize_agent(AC_scored(AC_new_agent(Document(doc))))
    /\ UNCHANGED <<files, id_vars, ac_vars, qc_vars, si_vars, gr_vars, raw, arg1, arg2, doc>>

\* IntelligentDeduplicator.content_similarity(agent1.content, agent2.content),
\* the two agents as load_agents builds them from two documents on disk
call_content_similarity ==
    /\ fn = "none"
    /\ Len(files) = 2
    /\ fn' = "content_similarity"
    /\ ret' = content_similarity(ID_new_agent(Disk[files[1]]).content,
                                 ID_new_agent(Disk[files[2]]).content)
    /\ UNCHANGED <<files, id_vars, ac_vars, qc_vars, si_vars, gr_vars, raw, arg1, arg2, doc, rec>>

\* QuickCollector.categorize_simple(agent['name'], agent['content']), the name
\* and the content as process_file takes them from the document
QC_call_categorize_simple(name, content) ==
    /\ ret' = categorize_simple(name, content)
    /\ rec' = [name |-> name, content |-> content]
QC_call_with(stem, content) == QC_call_categorize_simple(QC_name(stem, content), content)
call_categorize_simple ==
    /\ fn = "none"
    /\ doc # NoDocument
    /\ fn' = "categorize_simple"
    /\ QC_call_with(doc.stem, read_text(Document(doc)))
    /\ UNCHANGED <<files, id_vars, ac_vars, qc_vars, si_vars, gr_vars, raw, arg1, arg2, doc>>

\* self.extract_yaml(content) / self.extract_yaml_frontmatter(content)
call_extract_yaml ==
    /\ fn = "none"
    /\ raw # NoText
    /\ fn' = "extract_yaml"
    /\ ret' = extract_yaml_frontmatter(raw)
    /\ UNCHANGED <<files, id_vars, ac_vars, qc_vars, si_vars, gr_vars, raw, arg1, arg2, doc, rec>>

\* a function about to be called with one of its inputs: a function of names
\* with names, a function of an Agent with a document built to order, a
\* function of two contents with two documents on disk, a function of a text
\* with a text
CallsInit ==
    /\ New
    /\ fn = "none"
    /\ rec = 0
    /\ ret = 0
    /\ \/ /\ arg1 \in CallNames /\ arg2 \in SecondNames /\ doc = NoDocument /\ files = <<>>
          /\ raw = NoText
       \/ arg1 = <<>> /\ arg2 = <<>> /\ doc \in Shelf /\ files = <<>> /\ raw = NoText
       \/ /\ arg1 = <<>> /\ arg2 = <<>> /\ doc = NoDocument /\ files \in [1..2 -> Paths]
          /\ raw = NoText
       \/ arg1 = <<>> /\ arg2 = <<>> /\ doc = NoDocument /\ files = <<>> /\ raw \in RawTexts

CallsNext ==
    \/ call_get_semantic_key
    \/ call_name_similarity
    \/ call_ID_calculate_quality_score
    \/ call_AC_calculate_quality_score
    \/ call_categorize_agent
    \/ call_content_similarity
    \/ call_categorize_simple
    \/ call_extract_yaml

Calls == CallsInit /\ [][CallsNext]_vars

\* ================================================== QuickCollector.run
\* how many documents QuickCollector.run is given at most
MaxTasks == 3
\* the documents it is given
QuickPaths == {9, 10, 11, 12, 13, 14}
QuickLists(paths, n) ==
    UNION {{s \in [1..k -> paths] : \A i, j \in 1..k : i # j => s[i] # s[j]} : k \in 0..n}

\* process_file(file_path, repo_name): None (here <<>>) when reading raises
\* or the text holds none of the markers, else the record, in a sequence
QC_record(file, content) ==
    [path |-> file.path,
     repo |-> file.repo,
     name |-> QC_name(file.stem, content),
     content |-> content,
     hash |-> content_hash(content),
     size |-> Len(content)]
process_file(file) ==
    IF read_raises(file) THEN <<>>
    ELSE IF QC_not_an_agent(read_text(file)) THEN <<>>
    ELSE <<QC_record(file, read_text(file))>>
\* what process_file returns for each document, tabulated once
QC_processed == [p \in DOMAIN Documents |-> process_file(Documents[p])]

\* file_path.name contains one of the names collect_all skips
QC_skipped_name(file) ==
    \E n \in DOMAIN quick_skip_names : Contains(Lower(file.stem \o file.ext), quick_skip_names[n])
\* files_to_process of the documents fs: pattern by pattern, the documents of
\* each pattern in directory order
RECURSIVE QC_by_pattern(_, _)
QC_by_pattern(fs, n) ==
    IF n = 0 THEN <<>>
    ELSE QC_by_pattern(fs, n - 1)
         \o SelectSeq(fs, LAMBDA f : f.ext = glob_patterns[n] /\ ~QC_skipped_name(f))
files_to_process(fs) == QC_by_pattern(fs, Len(glob_patterns))

\* key = f"{agent['name']}_{agent['hash'][:8]}"
QC_key(agent) == <<agent.name, agent.hash>>
\* self.unique as the items of the dict in insertion order
QC_keys(unique) == {unique[i].key : i \in DOMAIN unique}
QC_at(unique, key) == CHOOSE i \in DOMAIN unique : unique[i].key = key
\* one iteration of the loop of deduplicate where a record replaces the
\* kept one of its key whatever its size
QC_put_last_wins(unique, agent) ==
    IF QC_key(agent) \notin QC_keys(unique)
    THEN Append(unique, [key |-> QC_key(agent), agent |-> agent])
    ELSE [unique EXCEPT ![QC_at(unique, QC_key(agent))].agent = agent]
\* one iteration of the loop of deduplicate
QC_put(unique, agent) ==
    IF QC_key(agent) \notin QC_keys(unique)
    THEN Append(unique, [key |-> QC_key(agent), agent |-> agent])
    ELSE IF agent.size > unique[QC_at(unique, QC_key(agent))].agent.size
         THEN [unique EXCEPT ![QC_at(unique, QC_key(agent))].agent = agent]
         ELSE unique
RECURSIVE QC_deduplicated(_, _)
QC_deduplicated(unique, agents) ==
    IF agents = <<>> THEN unique
    ELSE QC_deduplicated(QC_put(unique, Head(agents)), Tail(agents))

\* sorted(self.unique.values(), key=lambda x: x['name']): a stable sort
RECURSIVE QC_insert(_, _)
QC_insert(sorted, x) ==
    IF sorted = <<>> THEN <<x>>
    ELSE IF StrLess(x.name, sorted[Len(sorted)].name)
         THEN Append(QC_insert(SubSeq(sorted, 1, Len(sorted) - 1), x), sorted[Len(sorted)])
         ELSE Append(sorted, x)
RECURSIVE QC_sorted(_)
QC_sorted(s) ==
    IF s = <<>> THEN <<>> ELSE QC_insert(QC_sorted(SubSeq(s, 1, Len(s) - 1)), s[Len(s)])
\* re.sub(r'[^\w\-]', '_', agent['name'])
IsWordChar(c) == c \in Range(Letters) \cup Range(Capitals) \cup Range(DigitChars) \cup {"_", "-"}
clean_name(name) == [i \in DOMAIN name |-> IF IsWordChar(name[i]) THEN name[i] ELSE "_"]
\* the entry organize appends to agent_list for the i-th agent
QC_entry(i, agent, place) ==
    [id |-> i,
     name |-> agent.name,
     category |-> place[1],
     subcategory |-> place[2],
     source |-> agent.repo,
     path |-> <<place[1], place[2], i, clean_name(agent.name)>>]
QC_organized(sorted) ==
    [i \in DOMAIN sorted |->
        QC_entry(i, sorted[i], categorize_simple(sorted[i].name, sorted[i].content))]
QC_values(unique) == [i \in DOMAIN unique |-> unique[i].agent]

\* collect_all up to the submission of the tasks: one future for each of
\* files_to_process, in that order
QC_submit(fs) ==
    /\ qc_futures' = [i \in DOMAIN fs |-> [path |-> fs[i].path, done |-> FALSE]]
    /\ qc_pc' = "as_completed"
collect_all_submit ==
    /\ qc_pc = "new"
    /\ QC_submit(files_to_process([i \in DOMAIN files |-> Documents[files[i]]]))
    /\ UNCHANGED <<files, id_vars, ac_vars, call_vars, si_vars, gr_vars,
                   qc_yielded, qc_agents, qc_unique, qc_index>>

\* a thread of the pool runs process_file for a task to its end (the pool
\* has 10 threads, more than there are tasks here)
QC_worker(i) ==
    /\ ~qc_futures[i].done
    /\ qc_futures' = [qc_futures EXCEPT ![i].done = TRUE]
worker ==
    /\ \E i \in DOMAIN qc_futures : QC_worker(i)
    /\ UNCHANGED <<files, id_vars, ac_vars, call_vars, si_vars, gr_vars,
                   qc_pc, qc_yielded, qc_agents, qc_unique, qc_index>>

\* one iteration of the loop over as_completed(futures): a future that is
\* done and has not been yielded is yielded, and its result appended
QC_gather(i, result) ==
    /\ qc_futures[i].done
    /\ i \notin qc_yielded
    /\ qc_yielded' = qc_yielded \cup {i}
    /\ qc_agents' = IF result # <<>> THEN Append(qc_agents, result[1]) ELSE qc_agents
as_completed ==
    /\ qc_pc = "as_completed"
    /\ \E i \in DOMAIN qc_futures : QC_gather(i, QC_processed[qc_futures[i].path])
    /\ UNCHANGED <<files, id_vars, ac_vars, call_vars, si_vars, gr_vars,
                   qc_pc, qc_futures, qc_unique, qc_index>>

\* collect_all returning without the loop over as_completed having yielded
\* every future and without the pool being joined
collect_all_return_early ==
    /\ qc_pc = "as_completed"
    /\ qc_pc' = "collected"
    /\ UNCHANGED <<files, id_vars, ac_vars, call_vars, si_vars, gr_vars,
                   qc_futures, qc_yielded, qc_agents, qc_unique, qc_index>>
\* the end of collect_all: as_completed has yielded every future, and the
\* with block has joined the pool
collect_all_return ==
    /\ qc_pc = "as_completed"
    /\ qc_yielded = DOMAIN qc_futures
    /\ qc_pc' = "collected"
    /\ UNCHANGED <<files, id_vars, ac_vars, call_vars, si_vars, gr_vars,
                   qc_futures, qc_yielded, qc_agents, qc_unique, qc_index>>

\* QuickCollector.deduplicate
deduplicate ==
    /\ qc_pc = "collected"
    /\ qc_unique' = QC_deduplicated(qc_unique, qc_agents)
    /\ qc_pc' = "deduplicated"
    /\ UNCHANGED <<files, id_vars, ac_vars, call_vars, si_vars, gr_vars,
                   qc_futures, qc_yielded, qc_agents, qc_index>>

\* QuickCollector.organize
QC_write_index(agent_list) ==
    qc_index' = [total |-> Len(agent_list), agents |-> agent_list]
organize ==
    /\ qc_pc = "deduplicated"
    /\ QC_write_index(QC_organized(QC_sorted(QC_values(qc_unique))))
    /\ qc_pc' = "organized"
    /\ UNCHANGED <<files, id_vars, ac_vars, call_vars, si_vars, gr_vars,
                   qc_futures, qc_yielded, qc_agents, qc_unique>>

\* QuickCollector.create_simple_readme and QuickCollector.cleanup, which
\* change nothing of the collector
create_simple_readme ==
    /\ qc_pc = "organized"
    /\ qc_pc' = "readme"
    /\ UNCHANGED <<files, id_vars, ac_vars, call_vars, si_vars, gr_vars,
                   qc_futures, qc_yielded, qc_agents, qc_unique, qc_index>>
cleanup ==
    /\ qc_pc = "readme"
    /\ qc_pc' = "done"
    /\ UNCHANGED <<files, id_vars, ac_vars, call_vars, si_vars, gr_vars,
                   qc_futures, qc_yielded, qc_agents, qc_unique, qc_index>>

QuickInit ==
    /\ files \in QuickLists(QuickPaths, MaxTasks)
    /\ New
    /\ NoCall
QuickNext ==
    \/ collect_all_submit
    \/ worker
    \/ as_completed
    \/ collect_all_return
    \/ deduplicate
    \/ organize
    \/ create_simple_readme
    \/ cleanup
Quick == QuickInit /\ [][QuickNext]_vars

\* ------------------------------------ the loading stages of the three programs
\* the documents they are given: one that loads in all three, one with an
\* empty name, three that a step of one of the loaders raises for, and one
\* whose header the parser cannot read
LoadingPaths == {1, 12, 13, 15, 16, 17}
LoadingInit ==
    /\ files \in QuickLists(LoadingPaths, MaxTasks)
    /\ New
    /\ NoCall
LoadingNext ==
    \/ load_agents
    \/ collect_agents
    \/ collect_all_submit
    \/ worker
    \/ as_completed
    \/ collect_all_return
Loading == LoadingInit /\ [][LoadingNext]_vars

\* ------------------------------------------------------ SmartAgentInstaller
\* self.task_keywords
task_keywords == <<
    [category |-> "python",
     keywords |-> <<<<"p","y","t","h","o","n">>, <<"p","y">>, <<"p","i","p">>, <<"p","o","e","t","r","y">>, <<"v","e","n","v">>, <<"r","e","q","u","i","r","e","m","e","n","t","s",".","t","x","t">>>>,
     agents |-> <<<<"p","y","t","h","o","n","-","p","r","o">>, <<"p","y","t","h","o","n","-","e","x","p","e","r","t">>, <<"p","y","t","h","o","n","-","b","a","c","k","e","n","d","-","e","n","g","i","n","e","e","r">>>>],
    [category |-> "javascript",
     keywords |-> <<<<"j","a","v","a","s","c","r","i","p","t">>, <<"j","s">>, <<"n","o","d","e">>, <<"n","p","m">>, <<"y","a","r","n">>, <<"p","n","p","m">>, <<"p","a","c","k","a","g","e",".","j","s","o","n">>>>,
     agents |-> <<<<"j","a","v","a","s","c","r","i","p","t","-","p","r","o">>, <<"n","o","d","e","j","s","-","e","x","p","e","r","t">>>>],
    [category |-> "typescript",
     keywords |-> <<<<"t","y","p","e","s","c","r","i","p","t">>, <<"t","s">>, <<"t","s","x">>, <<"t","y","p","e","s">>, <<"i","n","t","e","r","f","a","c","e">>, <<"t","s","c","o","n","f","i","g">>>>,
     agents |-> <<<<"t","y","p","e","s","c","r","i","p","t","-","p","r","o">>>>],
    [category |-> "react",
     keywords |-> <<<<"r","e","a","c","t">>, <<"j","s","x">>, <<"h","o","o","k","s">>, <<"c","o","m","p","o","n","e","n","t">>, <<"u","s","e","S","t","a","t","e">>, <<"u","s","e","E","f","f","e","c","t">>, <<"r","e","d","u","x">>, <<"c","r","e","a","t","e"," ","r","e","a","c","t">>>>,
     agents |-> <<<<"r","e","a","c","t","-","p","r","o">>, <<"f","r","o","n","t","e","n","d","-","d","e","v","e","l","o","p","e","r">>, <<"t","y","p","e","s","c","r","i","p","t","-","p","r","o">>>>],
    [category |-> "vue",
     keywords |-> <<<<"v","u","e">>, <<"v","u","e","x">>, <<"p","i","n","i","a">>, <<"c","o","m","p","o","s","i","t","i","o","n">>, <<"v","u","e","t","i","f","y">>, <<"n","u","x","t">>>>,
     agents |-> <<<<"v","u","e","-","e","x","p","e","r","t">>, <<"f","r","o","n","t","e","n","d","-","d","e","v","e","l","o","p","e","r">>>>],
    [category |-> "angular",
     keywords |-> <<<<"a","n","g","u","l","a","r">>, <<"n","g">>, <<"r","x","j","s">>, <<"n","g","r","x">>, <<"d","e","c","o","r","a","t","o","r">>>>,
     agents |-> <<<<"a","n","g","u","l","a","r","-","a","r","c","h","i","t","e","c","t">>, <<"f","r","o","n","t","e","n","d","-","d","e","v","e","l","o","p","e","r">>>>],
    [category |-> "fastapi",
     keywords |-> <<<<"f","a","s","t","a","p","i">>, <<"p","y","d","a","n","t","i","c">>, <<"u","v","i","c","o","r","n">>, <<"a","s","y","n","c">>, <<"a","w","a","i","t">>>>,
     agents |-> <<<<"p","y","t","h","o","n","-","p","r","o">>, <<"p","y","t","h","o","n","-","b","a","c","k","e","n","d","-","e","n","g","i","n","e","e","r">>, <<"a","p","i","-","d","e","s","i","g","n","e","r">>>>],
    [category |-> "django",
     keywords |-> <<<<"d","j","a","n","g","o">>, <<"d","r","f">>, <<"o","r","m">>, <<"m","o","d","e","l","s">>, <<"v","i","e","w","s">>, <<"m","i","g","r","a","t","i","o","n","s">>>>,
     agents |-> <<<<"d","j","a","n","g","o","-","d","e","v","e","l","o","p","e","r">>, <<"p","y","t","h","o","n","-","b","a","c","k","e","n","d","-","e","n","g","i","n","e","e","r">>>>],
    [category |-> "flask",
     keywords |-> <<<<"f","l","a","s","k">>, <<"w","e","r","k","z","e","u","g">>, <<"j","i","n","j","a">>, <<"b","l","u","e","p","r","i","n","t">>>>,
     agents |-> <<<<"p","y","t","h","o","n","-","p","r","o">>, <<"p","y","t","h","o","n","-","b","a","c","k","e","n","d","-","e","n","g","i","n","e","e","r">>>>],
    [category |-> "express",
     keywords |-> <<<<"e","x","p","r","e","s","s">>, <<"m","i","d","d","l","e","w","a","r","e">>, <<"r","o","u","t","e","r">>, <<"a","p","p",".","g","e","t">>, <<"a","p","p",".","p","o","s","t">>>>,
     agents |-> <<<<"e","x","p","r","e","s","s","-","e","x","p","e","r","t">>, <<"n","o","d","e","j","s","-","e","x","p","e","r","t">>, <<"b","a","c","k","e","n","d","-","a","r","c","h","i","t","e","c","t">>>>],
    [category |-> "nextjs",
     keywords |-> <<<<"n","e","x","t">>, <<"n","e","x","t","j","s">>, <<"v","e","r","c","e","l">>, <<"s","s","r">>, <<"s","s","g">>, <<"a","p","p"," ","r","o","u","t","e","r">>>>,
     agents |-> <<<<"n","e","x","t","j","s","-","d","e","v","e","l","o","p","e","r">>, <<"r","e","a","c","t","-","p","r","o">>, <<"f","r","o","n","t","e","n","d","-","d","e","v","e","l","o","p","e","r">>>>],
    [category |-> "testing",
     keywords |-> <<<<"t","e","s","t">>, <<"t","e","s","t","i","n","g">>, <<"t","d","d">>, <<"b","d","d">>, <<"u","n","i","t">>, <<"i","n","t","e","g","r","a","t","i","o","n">>, <<"e","2","e">>, <<"j","e","s","t">>, <<"p","y","t","e","s","t">>, <<"v","i","t","e","s","t">>>>,
     agents |-> <<<<"t","e","s","t","-","a","u","t","o","m","a","t","o","r">>, <<"q","a","-","e","x","p","e","r","t">>, <<"t","e","s","t","i","n","g","-","i","m","p","l","e","m","e","n","t","a","t","i","o","n","-","a","g","e","n","t">>>>],
    [category |-> "debugging",
     keywords |-> <<<<"d","e","b","u","g">>, <<"f","i","x">>, <<"b","u","g">>, <<"e","r","r","o","r">>, <<"i","s","s","u","e">>, <<"t","r","o","u","b","l","e","s","h","o","o","t">>, <<"d","i","a","g","n","o","s","e">>, <<"p","r","o","b","l","e","m">>>>,
     agents |-> <<<<"d","e","b","u","g","g","e","r">>, <<"e","r","r","o","r","-","d","e","t","e","c","t","i","v","e">>, <<"t","r","o","u","b","l","e","s","h","o","o","t","e","r">>>>],
    [category |-> "refactoring",
     keywords |-> <<<<"r","e","f","a","c","t","o","r">>, <<"o","p","t","i","m","i","z","e">>, <<"c","l","e","a","n">>, <<"i","m","p","r","o","v","e">>, <<"p","e","r","f","o","r","m","a","n","c","e">>, <<"r","e","s","t","r","u","c","t","u","r","e">>, <<"c","l","e","a","n","u","p">>>>,
     agents |-> <<<<"r","e","f","a","c","t","o","r","i","n","g","-","s","p","e","c","i","a","l","i","s","t">>, <<"c","o","d","e","-","r","e","f","a","c","t","o","r","e","r","-","a","g","e","n","t">>, <<"p","e","r","f","o","r","m","a","n","c","e","-","e","n","g","i","n","e","e","r">>>>],
    [category |-> "security",
     keywords |-> <<<<"s","e","c","u","r","i","t","y">>, <<"a","u","d","i","t">>, <<"v","u","l","n","e","r","a","b","i","l","i","t","y">>, <<"p","e","n","e","t","r","a","t","i","o","n">>, <<"x","s","s">>, <<"c","s","r","f">>, <<"i","n","j","e","c","t","i","o","n">>, <<"a","u","t","h">>>>,
     agents |-> <<<<"s","e","c","u","r","i","t","y","-","a","u","d","i","t","o","r">>, <<"s","e","c","u","r","i","t","y","-","e","n","g","i","n","e","e","r">>>>],
    [category |-> "deployment",
     keywords |-> <<<<"d","e","p","l","o","y">>, <<"c","i">>, <<"c","d">>, <<"p","i","p","e","l","i","n","e">>, <<"d","o","c","k","e","r">>, <<"k","u","b","e","r","n","e","t","e","s">>, <<"k","8","s">>, <<"h","e","l","m">>, <<"a","w","s">>, <<"a","z","u","r","e">>>>,
     agents |-> <<<<"d","e","p","l","o","y","m","e","n","t","-","e","n","g","i","n","e","e","r">>, <<"d","e","v","o","p","s","-","e","n","g","i","n","e","e","r">>, <<"c","o","n","t","a","i","n","e","r","i","z","e","-","a","p","p","l","i","c","a","t","i","o","n">>, <<"k","u","b","e","r","n","e","t","e","s","-","s","p","e","c","i","a","l","i","s","t">>, <<"c","l","o","u","d","-","a","r","c","h","i","t","e","c","t">>>>],
    [category |-> "database",
     keywords |-> <<<<"d","a","t","a","b","a","s","e">>, <<"s","q","l">>, <<"n","o","s","q","l">>, <<"p","o","s","t","g","r","e","s">>, <<"m","y","s","q","l">>, <<"m","o","n","g","o","d","b">>, <<"r","e","d","i","s">>, <<"q","u","e","r","y">>, <<"m","i","g","r","a","t","i","o","n">>>>,
     agents |-> <<<<"d","a","t","a","b","a","s","e","-","o","p","t","i","m","i","z","e","r">>, <<"s","q","l","-","p","r","o">>, <<"p","o","s","t","g","r","e","s","-","p","r","o">>, <<"m","o","n","g","o","d","b","-","e","x","p","e","r","t">>>>],
    [category |-> "api",
     keywords |-> <<<<"a","p","i">>, <<"r","e","s","t">>, <<"g","r","a","p","h","q","l">>, <<"g","r","p","c">>, <<"w","e","b","s","o","c","k","e","t">>, <<"e","n","d","p","o","i","n","t">>, <<"s","w","a","g","g","e","r">>, <<"o","p","e","n","a","p","i">>>>,
     agents |-> <<<<"a","p","i","-","d","e","s","i","g","n","e","r">>, <<"a","p","i","-","d","o","c","u","m","e","n","t","e","r">>, <<"g","r","a","p","h","q","l","-","a","r","c","h","i","t","e","c","t">>, <<"w","e","b","s","o","c","k","e","t","-","e","n","g","i","n","e","e","r">>>>] >>

\* the agents of the index of the repository, and the files the clone of
\* the repository holds under agents/
A_PYTHON_PRO == <<"p","y","t","h","o","n","-","p","r","o">>
A_TYPESCRIPT == <<"t","y","p","e","s","c","r","i","p","t">>
A_VUE_EXPERT == <<"v","u","e","-","e","x","p","e","r","t">>
IndexAgents == <<
    [name |-> A_PYTHON_PRO, path |-> "python-pro.md"],
    [name |-> A_TYPESCRIPT, path |-> "typescript.md"],
    [name |-> A_VUE_EXPERT, path |-> "vue-expert.md"] >>
RepoFiles == {"python-pro.md", "typescript.md"}

\* What curl writes to stdout, by the value json.loads makes of it: a text
\* that is not JSON (an error page, nothing at all), or the JSON value it
\* holds.
NotJson == [json |-> FALSE, kind |-> "none", keys |-> {}, total |-> 0, agents |-> <<>>]
JsonArray == [json |-> TRUE, kind |-> "array", keys |-> {}, total |-> 0, agents |-> <<>>]
JsonMessage == [json |-> TRUE, kind |-> "object", keys |-> {"message"}, total |-> 0, agents |-> <<>>]
JsonTotalOnly == [json |-> TRUE, kind |-> "object", keys |-> {"total"}, total |-> 0, agents |-> <<>>]
JsonEmptyIndex ==
    [json |-> TRUE, kind |-> "object", keys |-> {"total", "agents"}, total |-> 0, agents |-> <<>>]
JsonIndex ==
    [json |-> TRUE, kind |-> "object", keys |-> {"total", "agents"}, total |-> 3,
     agents |-> IndexAgents]
Responses == {NotJson, JsonArray, JsonMessage, JsonTotalOnly, JsonEmptyIndex, JsonIndex}
\* what subprocess.run(["curl", ...], timeout=10) comes to: it raises
\* TimeoutExpired, or FileNotFoundError when there is no curl, or it returns
\* with an exit status and the text on stdout
Fetches ==
    {[raises |-> e, returncode |-> 0, stdout |-> NotJson] : e \in {"TimeoutExpired", "FileNotFoundError"}}
    \cup {[raises |-> "none", returncode |-> 6, stdout |-> NotJson]}
    \cup {[raises |-> "none", returncode |-> 0, stdout |-> r] : r \in Responses}
\* what subprocess.run(["git", "clone", ...], timeout=30) comes to
Clones == {"cloned", "exit_nonzero", "TimeoutExpired", "FileNotFoundError"}

\* the cache file: none, one json.load raises for, and two that load
Caches ==
    {NoCache,
     [exists |-> TRUE, json |-> FALSE, installed |-> {}],
     [exists |-> TRUE, json |-> TRUE, installed |-> {}],
     [exists |-> TRUE, json |-> TRUE, installed |-> {A_PYTHON_PRO}]}
\* load_cache: installed_agents
SI_cached(cache) == IF cache.exists /\ cache.json THEN cache.installed ELSE {}

\* the body of the try of load_index after curl has returned with status 0:
\* json.loads(result.stdout) raises or agent_index is assigned, and the
\* print reads agent_index['total'], which raises for a value that is not
\* an object or has no 'total'; except Exception assigns None
SI_parsed(stdout) ==
    IF ~stdout.json THEN <<>>
    ELSE IF stdout.kind # "object" \/ "total" \notin stdout.keys THEN <<>>
    ELSE <<stdout>>
\* agent_index after load_index: None is <<>>
SI_loaded(fetch) ==
    IF fetch.raises # "none" THEN <<>>
    ELSE IF fetch.returncode = 0 THEN SI_parsed(fetch.stdout)
    ELSE <<>>

\* the least number of a set of numbers
Least(S) == CHOOSE i \in S : \A j \in S : i <= j
\* analyze_prompt: the categories one of whose keywords is in the prompt in
\* lower case
SI_detected(prompt) ==
    {n \in DOMAIN task_keywords :
        \E k \in DOMAIN task_keywords[n].keywords :
            Contains(Lower(prompt), task_keywords[n].keywords[k])}
\* the first keyword of the category that is in the prompt
SI_keyword(prompt, n) ==
    task_keywords[n].keywords[
        Least({k \in DOMAIN task_keywords[n].keywords :
                  Contains(Lower(prompt), task_keywords[n].keywords[k])})]
SI_keywords_found(prompt) ==
    SelectSeq([n \in DOMAIN task_keywords |->
                  IF n \in SI_detected(prompt) THEN SI_keyword(prompt, n) ELSE <<>>],
              LAMBDA x : x # <<>>)
\* list(set(...)) has the elements in no order that the program fixes: the
\* categories and the suggested agents are sets here, and the loop over the
\* suggested agents takes them in any order
analyze_prompt(prompt) ==
    [categories |-> {task_keywords[n].category : n \in SI_detected(prompt)},
     suggested_agents |-> UNION {Range(task_keywords[n].agents) : n \in SI_detected(prompt)},
     keywords_found |-> SI_keywords_found(prompt)]
\* the lists that hold each element of the set once
Orderings(S) ==
    {s \in [1..Cardinality(S) -> S] : \A i, j \in DOMAIN s : i # j => s[i] # s[j]}

\* the test of the loop of find_agent_in_index
SI_matches(agent_name, agent) ==
    \/ Contains(Lower(agent.name), Lower(agent_name))
    \/ Contains(Lower(agent_name), Lower(agent.name))
\* self.agent_index.get('agents', [])
SI_agents(index) == IF "agents" \in index.keys THEN index.agents ELSE <<>>
\* find_agent_in_index: None is <<>>
find_agent_in_index(agent_index, agent_name) ==
    IF agent_index = <<>> THEN <<>>
    ELSE IF \E i \in DOMAIN SI_agents(agent_index[1]) :
                SI_matches(agent_name, SI_agents(agent_index[1])[i])
         THEN <<SI_agents(agent_index[1])[
                    Least({i \in DOMAIN SI_agents(agent_index[1]) :
                              SI_matches(agent_name, SI_agents(agent_index[1])[i])})]>>
    ELSE <<>>

\* the loop of install_agents_from_repo over agents_to_install from the
\* n-th on: done is [installed, installed_agents, agents_dir]
SI_copied(agent_index, agent_name, done) ==
    IF find_agent_in_index(agent_index, agent_name) = <<>> THEN done
    ELSE IF find_agent_in_index(agent_index, agent_name)[1].path \notin RepoFiles THEN done
    ELSE IF find_agent_in_index(agent_index, agent_name)[1].path \in done.agents_dir THEN done
    ELSE [installed |-> Append(done.installed, agent_name),
          installed_agents |-> done.installed_agents \cup {agent_name},
          agents_dir |-> done.agents_dir
                         \cup {find_agent_in_index(agent_index, agent_name)[1].path}]
RECURSIVE SI_install(_, _, _, _)
SI_install(agent_index, agents_to_install, n, done) ==
    IF n > Len(agents_to_install) THEN done
    ELSE SI_install(agent_index, agents_to_install, n + 1,
                    SI_copied(agent_index, agents_to_install[n], done))
\* install_agents_from_repo: what is raised, and [installed,
\* installed_agents, agents_dir] after it. The try has a finally and no
\* except: an exception of subprocess.run leaves the method.
install_agents_from_repo(agent_index, agents_to_install, clone, done) ==
    IF agents_to_install = <<>> THEN [raised |-> "none", after |-> done]
    ELSE IF clone \in {"TimeoutExpired", "FileNotFoundError"} THEN [raised |-> clone, after |-> done]
    ELSE IF clone = "exit_nonzero" THEN [raised |-> "none", after |-> done]
    ELSE [raised |-> "none", after |-> SI_install(agent_index, agents_to_install, 1, done)]
\* the limit of auto_install on the agents of one run
PerRun == 5
\* the cache after install_agents_from_repo: save_cache when an agent was
\* installed
SI_saved(cache, after) ==
    IF after.installed # <<>>
    THEN [exists |-> TRUE, json |-> TRUE, installed |-> after.installed_agents]
    ELSE cache

\* the prompts auto_install is called with
P_PYTHON == <<"P","y","t","h","o","n"," ","t","o","o","l">>
P_VUE == <<"v","u","e"," ","p","a","g","e">>
P_TYPESCRIPT == <<"t","y","p","e","s","c","r","i","p","t">>
P_HELLO == <<"h","e","l","l","o">>
P_HOOK == <<"w","r","i","t","e"," ","a"," ","u","s","e","S","t","a","t","e"," ","h","o","o","k">>
Prompts == {P_PYTHON, P_VUE, P_TYPESCRIPT, P_HELLO, P_HOOK}
\* analyze_prompt of the prompts, tabulated once
SI_analysis == [prompt \in Prompts |-> analyze_prompt(prompt)]

\* SmartAgentInstaller.__init__ up to the call of load_cache
SI_init ==
    /\ si_pc = "new"
    /\ si_cache \in Caches
    /\ si_agents_dir \in {{}, {"python-pro.md"}}
    /\ si_fetch = NoFetch
    /\ si_agent_index = <<>>
    /\ si_installed_agents = {}
    /\ si_prompt = <<>>
    /\ si_result = NoResult

\* SmartAgentInstaller.load_cache
load_cache ==
    /\ si_pc = "new"
    /\ si_installed_agents' = SI_cached(si_cache)
    /\ si_pc' = "cached"
    /\ UNCHANGED <<files, id_vars, ac_vars, call_vars, qc_vars, gr_vars,
                   si_cache, si_agents_dir, si_fetch, si_agent_index, si_prompt, si_result>>

\* SmartAgentInstaller.load_index
load_index ==
    /\ si_pc = "cached"
    /\ \E fetch \in Fetches :
          /\ si_fetch' = fetch
          /\ si_agent_index' = SI_loaded(fetch)
    /\ si_pc' = "ready"
    /\ UNCHANGED <<files, id_vars, ac_vars, call_vars, qc_vars, gr_vars,
                   si_cache, si_agents_dir, si_installed_agents, si_prompt, si_result>>

\* auto_install from the loop over the suggested agents on, the agents taken
\* in the order suggested
SI_outcome(analysis, skipped, installing) ==
    [raised |-> installing.raised,
     analysis |-> analysis,
     agents_installed |-> IF installing.raised = "none" THEN installing.after.installed ELSE <<>>,
     agents_skipped |-> skipped,
     message |-> IF installing.raised # "none" THEN "none"
                 ELSE IF installing.after.installed # <<>> THEN "Successfully installed"
                 ELSE "No new agents installed"]
SI_auto_install(analysis, suggested, clone) ==
    IF suggested = <<>>
    THEN /\ si_result' = [NoResult EXCEPT !.analysis = analysis,
                                          !.message = "No specific agents identified"]
         /\ si_pc' = "returned"
         /\ UNCHANGED <<si_cache, si_agents_dir, si_installed_agents>>
    ELSE IF SelectSeq(suggested, LAMBDA a : a \notin si_installed_agents) = <<>>
    THEN /\ si_result' = [NoResult EXCEPT !.analysis = analysis,
                                          !.agents_skipped = suggested,
                                          !.message = "All suggested agents already installed"]
         /\ si_pc' = "returned"
         /\ UNCHANGED <<si_cache, si_agents_dir, si_installed_agents>>
    ELSE \E installing \in
              {install_agents_from_repo(
                   si_agent_index,
                   Take(SelectSeq(suggested, LAMBDA a : a \notin si_installed_agents), PerRun),
                   clone,
                   [installed |-> <<>>, installed_agents |-> si_installed_agents,
                    agents_dir |-> si_agents_dir])} :
            /\ si_result' = SI_outcome(analysis,
                                       SelectSeq(suggested, LAMBDA a : a \in si_installed_agents),
                                       installing)
            /\ si_pc' = IF installing.raised = "none" THEN "returned" ELSE "raised"
            /\ si_installed_agents' = installing.after.installed_agents
            /\ si_agents_dir' = installing.after.agents_dir
            /\ si_cache' = SI_saved(si_cache, installing.after)
\* SmartAgentInstaller.auto_install
auto_install ==
    /\ si_pc = "ready"
    /\ \E prompt \in Prompts, clone \in Clones :
          /\ si_prompt' = prompt
          /\ \E suggested \in Orderings(SI_analysis[prompt].suggested_agents) :
                SI_auto_install(SI_analysis[prompt], suggested, clone)
    /\ UNCHANGED <<files, id_vars, ac_vars, call_vars, qc_vars, gr_vars, si_fetch, si_agent_index>>

InstallerInit == files = <<>> /\ ID_AC_new /\ NoCall /\ QC_new /\ NoGroupers /\ SI_init
InstallerNext == load_cache \/ load_index \/ auto_install
Installer == InstallerInit /\ [][InstallerNext]_vars

\* ---------------------------------------------------------- the two groupers
\* The loops of the two find_duplicates with the duplicate test as a
\* parameter: dup is the set of the pairs <<a, b>> for which the test called
\* with a as its first and b as its second argument is true.
MaxRecords == 3

\* the inner loop of IntelligentDeduplicator.find_duplicates from index j
\* on: <<current_group, processed>>
RECURSIVE GR_scan(_, _, _, _, _, _)
GR_scan(records, dup, seed, j, current_group, processed) ==
    IF j > Len(records) THEN <<current_group, processed>>
    ELSE IF records[j] \in processed
         THEN GR_scan(records, dup, seed, j + 1, current_group, processed)
    ELSE IF <<seed, records[j]>> \in dup
         THEN GR_scan(records, dup, seed, j + 1, Append(current_group, records[j]),
                      processed \cup {records[j]})
    ELSE GR_scan(records, dup, seed, j + 1, current_group, processed)
\* the outer loop from index i on: the current_group of every seed in the
\* order of the seeds, those of one record too (find_duplicates stores the
\* others in duplicate_groups and leaves these to select_best_from_groups)
RECURSIVE GR_seed_scan(_, _, _, _, _)
GR_next_seed(records, dup, i, groups, scanned) ==
    GR_seed_scan(records, dup, i + 1, scanned[2], Append(groups, scanned[1]))
GR_seed_scan(records, dup, i, processed, groups) ==
    IF i > Len(records) THEN groups
    ELSE IF records[i] \in processed THEN GR_seed_scan(records, dup, i + 1, processed, groups)
    ELSE GR_next_seed(records, dup, i, groups,
                      GR_scan(records, dup, records[i], i + 1, <<records[i]>>,
                              processed \cup {records[i]}))

\* GR_incremental without the break: the record joins the last group whose
\* first member it matches
RECURSIVE GR_incremental_last_match(_, _, _, _)
GR_incremental_last_match(records, dup, i, groups) ==
    IF i > Len(records) THEN groups
    ELSE GR_incremental_last_match(records, dup, i + 1,
            AC_placed(groups, records[i],
                      LastOf({g \in DOMAIN groups : <<records[i], groups[g][1]>> \in dup})))
\* the first loop of AgentCollector.find_duplicates from index i on
RECURSIVE GR_incremental(_, _, _, _)
GR_incremental(records, dup, i, groups) ==
    IF i > Len(records) THEN groups
    ELSE GR_incremental(records, dup, i + 1,
            AC_placed(groups, records[i],
                      FirstOf({g \in DOMAIN groups : <<records[i], groups[g][1]>> \in dup})))

\* the pairs of two different records
GR_pairs(n) == {p \in (1..n) \X (1..n) : p[1] # p[2]}
GroupersInit ==
    /\ files = <<>> /\ ID_AC_new /\ NoCall /\ QC_new /\ NoInstaller
    /\ gr_done = {}
    /\ \E n \in 0..MaxRecords :
          /\ gr_records = [i \in 1..n |-> i]
          /\ gr_dup \in SUBSET GR_pairs(n)
    /\ gr_seed_scan = <<>>
    /\ gr_incremental = <<>>
\* the loops of IntelligentDeduplicator.find_duplicates
find_duplicates_seed_scan ==
    /\ "seed_scan" \notin gr_done
    /\ gr_seed_scan' = GR_seed_scan(gr_records, gr_dup, 1, {}, <<>>)
    /\ gr_done' = gr_done \cup {"seed_scan"}
    /\ UNCHANGED <<files, id_vars, ac_vars, call_vars, qc_vars, si_vars,
                   gr_dup, gr_records, gr_incremental>>
\* the first loop of AgentCollector.find_duplicates
find_duplicates_incremental ==
    /\ "incremental" \notin gr_done
    /\ gr_incremental' = GR_incremental(gr_records, gr_dup, 1, <<>>)
    /\ gr_done' = gr_done \cup {"incremental"}
    /\ UNCHANGED <<files, id_vars, ac_vars, call_vars, qc_vars, si_vars,
                   gr_dup, gr_records, gr_seed_scan>>
GroupersNext == find_duplicates_seed_scan \/ find_duplicates_incremental
Groupers == GroupersInit /\ [][GroupersNext]_vars

\* ================================================================ properties
\* ------------------------------------------------------- common definitions
\* the position of the agent of a path in a list of agents
ID_pos(p) == CHOOSE i \in DOMAIN id_all_agents : id_all_agents[i].path = p
AC_pos(p) == CHOOSE i \in DOMAIN ac_all_agents : ac_all_agents[i].original_path = p
AC_PathsOf(s) == {s[i].original_path : i \in DOMAIN s}

RECURSIVE SumLen(_)
SumLen(groups) == IF groups = <<>> THEN 0 ELSE Len(Head(groups)) + SumLen(Tail(groups))

\* the paths of the agents that are in no duplicate group: the singleton groups
ID_singles ==
    PathsOf(id_all_agents)
    \ UNION {PathsOf(id_duplicate_groups[g]) : g \in DOMAIN id_duplicate_groups}

\* how many places of the groups hold the agent of path p
ID_occurrences(p) ==
    Cardinality({gk \in (DOMAIN id_duplicate_groups) \X (1..Len(id_all_agents)) :
                    /\ gk[2] <= Len(id_duplicate_groups[gk[1]])
                    /\ id_duplicate_groups[gk[1]][gk[2]].path = p})
AC_occurrences(p) ==
    Cardinality({gk \in (DOMAIN ac_groups) \X (1..Len(ac_all_agents)) :
                    /\ gk[2] <= Len(ac_groups[gk[1]])
                    /\ ac_groups[gk[1]][gk[2]].original_path = p})

ID_is_grouped == id_pc \in {"grouped", "selected", "saved"}
AC_is_grouped == ac_pc \in {"deduplicated", "organized", "indexed"}

\* ------------------------------------------------------------------------ C1
\* C1: after grouping, every ingested record is in exactly one group (a record
\* in no duplicate group being its own singleton group) and the group sizes
\* add up to the number of ingested records, in both groupers.
C1_Partition ==
    /\ ID_is_grouped =>
        /\ \A p \in PathsOf(id_all_agents) : ID_occurrences(p) <= 1
        /\ \A g \in DOMAIN id_duplicate_groups :
               PathsOf(id_duplicate_groups[g]) \subseteq PathsOf(id_all_agents)
        /\ SumLen(id_duplicate_groups) + Cardinality(ID_singles) = Len(id_all_agents)
    /\ AC_is_grouped =>
        /\ \A p \in AC_PathsOf(ac_all_agents) : AC_occurrences(p) = 1
        /\ \A g \in DOMAIN ac_groups :
               AC_PathsOf(ac_groups[g]) \subseteq AC_PathsOf(ac_all_agents)
        /\ SumLen(ac_groups) = Len(ac_all_agents)

\* three records grouped into a pair and a singleton by both groupers
C1_Witness ==
    /\ id_pc = "grouped" /\ Len(id_all_agents) = 3
    /\ Len(id_duplicate_groups) = 1 /\ Len(id_duplicate_groups[1]) = 2
    /\ Cardinality(ID_singles) = 1
    /\ ac_pc = "deduplicated" /\ Len(ac_all_agents) = 3
    /\ Len(ac_groups) = 2 /\ SumLen(ac_groups) = 3

\* ------------------------------------------------------------------------ C2
\* the agent of a duplicate group that find_duplicates met first: its seed
ID_seed(g) ==
    LET group == id_duplicate_groups[g]
    IN group[CHOOSE k \in DOMAIN group :
                \A m \in DOMAIN group : ID_pos(group[k].path) <= ID_pos(group[m].path)]

\* C2: a record joins a group only if the test against the group's seed
\* succeeds; a record the seed does not match stays out of the group even when
\* it matches another member of the group (no transitive closure), in both
\* groupers.
C2_SeedOnly ==
    /\ ID_is_grouped =>
        \A g \in DOMAIN id_duplicate_groups : \A i \in DOMAIN id_all_agents :
            LET r == id_all_agents[i]
            IN (r.path # ID_seed(g).path /\ ~ID_matches(ID_seed(g), r))
               => r.path \notin PathsOf(id_duplicate_groups[g])
    /\ AC_is_grouped =>
        \A g \in DOMAIN ac_groups : \A i \in DOMAIN ac_all_agents :
            LET r == ac_all_agents[i]
            IN (r.original_path # ac_groups[g][1].original_path
                /\ ~AC_matches(r, ac_groups[g][1]))
               => r.original_path \notin AC_PathsOf(ac_groups[g])

\* in both groupers a record that matches a member of a group, but not the
\* group's seed, has been left out of the group
C2_Witness ==
    /\ id_pc = "grouped"
    /\ \E g \in DOMAIN id_duplicate_groups : \E i \in DOMAIN id_all_agents :
        \E k \in DOMAIN id_duplicate_groups[g] :
            /\ id_duplicate_groups[g][k].path # ID_seed(g).path
            /\ ID_matches(id_duplicate_groups[g][k], id_all_agents[i])
            /\ ~ID_matches(ID_seed(g), id_all_agents[i])
            /\ id_all_agents[i].path \notin PathsOf(id_duplicate_groups[g])
    /\ ac_pc = "deduplicated"
    /\ \E g \in DOMAIN ac_groups : \E i \in DOMAIN ac_all_agents :
        \E k \in 2..Len(ac_groups[g]) :
            /\ AC_matches(ac_all_agents[i], ac_groups[g][k])
            /\ ~AC_matches(ac_all_agents[i], ac_groups[g][1])
            /\ ac_all_agents[i].original_path \notin AC_PathsOf(ac_groups[g])

\* ------------------------------------------------------------------------ C3
\* the paths of the seeds: the first agent of every group, an agent in no
\* duplicate group being the seed of its own group
ID_seeds == ID_singles \cup {ID_seed(g).path : g \in DOMAIN id_duplicate_groups}
AC_seeds == {ac_groups[g][1].original_path : g \in DOMAIN ac_groups}

\* the seeds that stand before the agent at position i and that it matches
ID_earlier_seeds(i) ==
    {s \in ID_seeds : /\ ID_pos(s) < i
                      /\ ID_matches(id_all_agents[ID_pos(s)], id_all_agents[i])}
AC_earlier_seeds(i) ==
    {s \in AC_seeds : /\ AC_pos(s) < i
                      /\ AC_matches(ac_all_agents[i], ac_all_agents[AC_pos(s)])}

\* C3: a record is a seed exactly when it matches no earlier seed; otherwise
\* it is in the group of the earliest seed it matches; and the groups stand
\* in the order of their seeds, in both groupers.
C3_FirstMatchWins ==
    /\ ID_is_grouped =>
        /\ \A i \in DOMAIN id_all_agents :
            LET M == ID_earlier_seeds(i)
            IN /\ id_all_agents[i].path \in ID_seeds <=> M = {}
               /\ M # {} =>
                    \E g \in DOMAIN id_duplicate_groups :
                        /\ id_all_agents[i].path \in PathsOf(id_duplicate_groups[g])
                        /\ \A s \in M : ID_pos(ID_seed(g).path) <= ID_pos(s)
                        /\ ID_seed(g).path \in M
        /\ \A g, h \in DOMAIN id_duplicate_groups :
                g < h => ID_pos(ID_seed(g).path) < ID_pos(ID_seed(h).path)
    /\ AC_is_grouped =>
        /\ \A i \in DOMAIN ac_all_agents :
            LET M == AC_earlier_seeds(i)
            IN /\ ac_all_agents[i].original_path \in AC_seeds <=> M = {}
               /\ M # {} =>
                    \E g \in DOMAIN ac_groups :
                        /\ ac_all_agents[i].original_path \in AC_PathsOf(ac_groups[g])
                        /\ \A s \in M : AC_pos(ac_groups[g][1].original_path) <= AC_pos(s)
                        /\ ac_groups[g][1].original_path \in M
        /\ \A g, h \in DOMAIN ac_groups :
                g < h => AC_pos(ac_groups[g][1].original_path)
                         < AC_pos(ac_groups[h][1].original_path)

\* in both groupers a record matches two earlier seeds
C3_Witness ==
    /\ id_pc = "grouped"
    /\ \E i \in DOMAIN id_all_agents : Cardinality(ID_earlier_seeds(i)) >= 2
    /\ ac_pc = "deduplicated"
    /\ \E i \in DOMAIN ac_all_agents : Cardinality(AC_earlier_seeds(i)) >= 2

\* ------------------------------------------------------------------------ C4
\* the four tests of find_duplicates, each computed on its own: equal
\* semantic keys, name similarity above 0.7, content similarity above 0.8,
\* equal non-empty names without the role suffix
ID_four_tests(agent1, agent2) ==
    << get_semantic_key(agent1.name) = get_semantic_key(agent2.name),
       Exceeds(name_similarity(agent1.name, agent2.name), 7, 10),
       Exceeds(content_similarity(agent1.content, agent2.content), 8, 10),
       /\ StripRoleSuffix(agent1.name) = StripRoleSuffix(agent2.name)
       /\ StripRoleSuffix(agent1.name) # <<>> >>
ID_four_tests_table ==
    [p \in Paths |-> [q \in Paths |-> ID_four_tests(ID_loaded[p], ID_loaded[q])]]

\* the candidates the scan of the seed at position i tests: the later agents
\* that no earlier seed has taken
ID_tested_by(i) ==
    {j \in DOMAIN id_all_agents :
        /\ j > i
        /\ ~\E g \in DOMAIN id_duplicate_groups :
                /\ id_all_agents[j].path \in PathsOf(id_duplicate_groups[g])
                /\ ID_pos(ID_seed(g).path) < i}

\* the agent at position j is in the group whose seed is the agent at position i
ID_joined(i, j) ==
    \E g \in DOMAIN id_duplicate_groups :
        /\ ID_seed(g).path = id_all_agents[i].path
        /\ id_all_agents[j].path \in PathsOf(id_duplicate_groups[g])

\* C4: in IntelligentDeduplicator.find_duplicates a candidate the seed tests
\* joins the seed's group if and only if at least one of the four tests
\* holds; a failing test never vetoes a passing one.
C4_AnyOfFourTests ==
    ID_is_grouped =>
        \A i \in DOMAIN id_all_agents :
            id_all_agents[i].path \in ID_seeds =>
                \A j \in ID_tested_by(i) :
                    LET t == ID_four_tests_table[id_all_agents[i].path][id_all_agents[j].path]
                    IN ID_joined(i, j) <=> (t[1] \/ t[2] \/ t[3] \/ t[4])

\* a candidate has joined on the content test alone, the suffix test failing,
\* and another has stayed out with all four tests failing
C4_Witness ==
    /\ id_pc = "grouped"
    /\ \E i \in DOMAIN id_all_agents : \E j \in ID_tested_by(i) :
            /\ ID_joined(i, j)
            /\ ID_four_tests_table[id_all_agents[i].path][id_all_agents[j].path]
               = <<FALSE, FALSE, TRUE, FALSE>>
    /\ \E i \in DOMAIN id_all_agents : \E j \in ID_tested_by(i) :
            /\ id_all_agents[i].path \in ID_seeds
            /\ ~ID_joined(i, j)
            /\ ID_four_tests_table[id_all_agents[i].path][id_all_agents[j].path]
               = <<FALSE, FALSE, FALSE, FALSE>>

\* ------------------------------------------------------------------------ C5
\* C5 (as stated): the duplicate decision does not depend on the order of its
\* two arguments, neither the test of IntelligentDeduplicator.find_duplicates
\* nor the thresholded similarity_score of AgentCollector.
C5_Symmetric ==
    /\ \A i, j \in DOMAIN id_all_agents :
            ID_matches(id_all_agents[i], id_all_agents[j])
            = ID_matches(id_all_agents[j], id_all_agents[i])
    /\ \A i, j \in DOMAIN ac_all_agents :
            AC_matches(ac_all_agents[i], ac_all_agents[j])
            = AC_matches(ac_all_agents[j], ac_all_agents[i])

\* ------------------------------------------------------------------------ C6
\* the survivor the last run of the selection appended for group g:
\* select_best_from_groups appends the agents of no group and then one agent
\* per group, AgentCollector.find_duplicates one agent per group
ID_survivor(g) ==
    id_unique_agents[Len(id_unique_agents) - Len(id_duplicate_groups) + g]
AC_survivor(g) ==
    ac_unique_agents[Len(ac_unique_agents) - Len(ac_groups) + g]

\* C6: the survivor of a group is a member whose quality_score is at least
\* that of every member, and among the members with the highest score it is
\* the one that stood first in the group before the sort.  (A group of
\* IntelligentDeduplicator holds its members in the order of all_agents; the
\* groups of AgentCollector are kept as they were before the sort.)
C6_BestFirstAmongTies ==
    /\ id_pc = "selected" =>
        \A g \in DOMAIN id_duplicate_groups :
            /\ ID_survivor(g).path \in PathsOf(id_duplicate_groups[g])
            /\ \A k \in DOMAIN id_duplicate_groups[g] :
                LET m == id_duplicate_groups[g][k]
                IN /\ ID_survivor(g).quality_score >= m.quality_score
                   /\ m.quality_score = ID_survivor(g).quality_score
                      => ID_pos(ID_survivor(g).path) <= ID_pos(m.path)
    /\ ac_pc = "deduplicated" =>
        \A g \in DOMAIN ac_groups :
            \E b \in DOMAIN ac_groups[g] :
                /\ ac_groups[g][b] = AC_survivor(g)
                /\ \A k \in DOMAIN ac_groups[g] :
                    /\ AC_survivor(g).quality_score >= ac_groups[g][k].quality_score
                    /\ ac_groups[g][k].quality_score = AC_survivor(g).quality_score
                       => b <= k

\* in both programs a group of three whose first member has a lower score
\* than the two others, which are tied, has yielded the second member
C6_Witness ==
    /\ id_pc = "selected"
    /\ \E g \in DOMAIN id_duplicate_groups :
        LET ByPos(n) == CHOOSE m \in Range(id_duplicate_groups[g]) :
                Cardinality({x \in Range(id_duplicate_groups[g]) :
                                ID_pos(x.path) < ID_pos(m.path)}) = n - 1
        IN /\ Len(id_duplicate_groups[g]) = 3
           /\ ByPos(1).quality_score < ByPos(2).quality_score
           /\ ByPos(2).quality_score = ByPos(3).quality_score
           /\ ID_survivor(g) = ByPos(2)
    /\ ac_pc = "deduplicated"
    /\ \E g \in DOMAIN ac_groups :
           /\ Len(ac_groups[g]) = 3
           /\ ac_groups[g][1].quality_score < ac_groups[g][2].quality_score
           /\ ac_groups[g][2].quality_score = ac_groups[g][3].quality_score
           /\ AC_survivor(g) = ac_groups[g][2]

\* ------------------------------------------------------------------------ C7
\* the rejected names of a list of decisions, counted
RECURSIVE SumRejected(_)
SumRejected(decisions) ==
    IF decisions = <<>> THEN 0
    ELSE Len(Head(decisions).rejected) + SumRejected(Tail(decisions))

\* C7: after one run every group, singletons included, has exactly one of
\* its members among the survivors and the survivors are as many as the
\* groups; survivors and rejected records add up to the ingested records, in
\* the lists and in the counts written to deduplication_log.json and
\* agents-index.json.
C7_OneSurvivorPerGroup ==
    /\ (id_pc \in {"selected", "saved"} /\ id_runs = 1) =>
        /\ Len(id_unique_agents) = Len(id_duplicate_groups) + Cardinality(ID_singles)
        /\ ID_singles \subseteq PathsOf(id_unique_agents)
        /\ \A g \in DOMAIN id_duplicate_groups :
               Cardinality(PathsOf(id_duplicate_groups[g]) \cap PathsOf(id_unique_agents)) = 1
        /\ PathsOf(id_unique_agents) \subseteq PathsOf(id_all_agents)
        /\ Len(id_unique_agents) + SumRejected(id_decision_log) = Len(id_all_agents)
    /\ (id_pc = "saved" /\ id_runs = 1) =>
        /\ id_log.original_count = Len(id_all_agents)
        /\ id_log.unique_count + SumRejected(id_log.decisions) = id_log.original_count
    /\ (AC_is_grouped /\ ac_runs = 1) =>
        /\ Len(ac_unique_agents) = Len(ac_groups)
        /\ \A g \in DOMAIN ac_groups :
               Cardinality(AC_PathsOf(ac_groups[g]) \cap AC_PathsOf(ac_unique_agents)) = 1
        /\ AC_PathsOf(ac_unique_agents) \cap AC_PathsOf(ac_duplicates) = {}
        /\ Len(ac_unique_agents) + Len(ac_duplicates) = Len(ac_all_agents)
    /\ (ac_pc = "indexed" /\ ac_runs = 1) =>
        ac_index.total_agents + ac_index.total_duplicates_removed = Len(ac_all_agents)

\* one run of each program over three records, a group of two and a
\* singleton, has written its counts
C7_Witness ==
    /\ id_pc = "saved" /\ id_runs = 1
    /\ id_log.original_count = 3 /\ id_log.unique_count = 2
    /\ SumRejected(id_log.decisions) = 1
    /\ ac_pc = "indexed" /\ ac_runs = 1
    /\ Len(ac_all_agents) = 3
    /\ ac_index.total_agents = 2 /\ ac_index.total_duplicates_removed = 1

\* ------------------------------------------------------------------------ C8
\* the member of group g with the highest quality_score, the earliest in
\* all_agents of those that have it
ID_best(g) ==
    CHOOSE b \in Range(id_duplicate_groups[g]) :
        \A m \in Range(id_duplicate_groups[g]) :
            \/ b.quality_score > m.quality_score
            \/ b.quality_score = m.quality_score /\ ID_pos(b.path) <= ID_pos(m.path)

\* the decision the last run of select_best_from_groups appended for group g
ID_logged(g) == id_decision_log[Len(id_decision_log) - Len(id_duplicate_groups) + g]

\* C8: select_best_from_groups appends one decision per duplicate group; its
\* group is the semantic key of the survivor's name, selected and score are
\* the survivor's name and quality_score, rejected holds the names of the
\* other members of the group and of nobody else; the log file carries the
\* decisions as they were appended.
C8_DecisionRecord ==
    /\ id_pc = "selected" =>
        /\ Len(id_decision_log) = id_runs * Len(id_duplicate_groups)
        /\ \A g \in DOMAIN id_duplicate_groups :
            LET others == {m \in Range(id_duplicate_groups[g]) : m.path # ID_best(g).path}
            IN /\ ID_logged(g).group = get_semantic_key(ID_best(g).name)
               /\ ID_logged(g).selected = ID_best(g).name
               /\ ID_logged(g).score = ID_best(g).quality_score
               /\ Len(ID_logged(g).rejected) = Len(id_duplicate_groups[g]) - 1
               /\ Range(ID_logged(g).rejected) = {m.name : m \in others}
    /\ id_pc = "saved" => id_log.decisions = id_decision_log

\* a decision for a group of three whose survivor is not the seed: two names
\* rejected, the seed's among them
C8_Witness ==
    /\ id_pc = "selected"
    /\ \E g \in DOMAIN id_duplicate_groups :
        /\ Len(id_duplicate_groups[g]) = 3
        /\ ID_best(g).path # ID_seed(g).path
        /\ Len(ID_logged(g).rejected) = 2
        /\ ID_seed(g).name \in Range(ID_logged(g).rejected)
        /\ ID_logged(g).group # ID_logged(g).selected

\* ------------------------------------------------------------------------ C9
\* how many entries of a list of agents are the agent of path p
ID_times(s, p) == Cardinality({i \in DOMAIN s : s[i].path = p})
AC_times(s, p) == Cardinality({i \in DOMAIN s : s[i].original_path = p})

\* C9 (as stated): however often the grouper and the selection have run on
\* the same collector, no record is among the survivors twice, no record is
\* among the rejected twice, and there is one decision per duplicate group.
C9_NothingAddedTwice ==
    /\ \A p \in PathsOf(id_all_agents) : ID_times(id_unique_agents, p) <= 1
    /\ id_pc = "selected" => Len(id_decision_log) = Len(id_duplicate_groups)
    /\ \A p \in AC_PathsOf(ac_all_agents) :
           /\ AC_times(ac_unique_agents, p) <= 1
           /\ AC_times(ac_duplicates, p) <= 1

\* ----------------------------------------------------------------------- C10
\* the agents at positions i and j are in the same duplicate group
ID_same_group(i, j) ==
    \E g \in DOMAIN id_duplicate_groups :
        {id_all_agents[i].path, id_all_agents[j].path}
        \subseteq PathsOf(id_duplicate_groups[g])

\* the agents at positions i and j have the same semantic key
ID_same_key(i, j) ==
    semantic_key_table[id_all_agents[i].name] = semantic_key_table[id_all_agents[j].name]

\* C10 (as stated): two records whose names have the same semantic key are in
\* the same group, whatever other records there are and wherever the two
\* stand.
C10_SameKeySameGroup ==
    ID_is_grouped =>
        \A i, j \in DOMAIN id_all_agents :
            (i < j /\ ID_same_key(i, j)) => ID_same_group(i, j)

\* C10 (amended): two records whose names have the same semantic key are in
\* the same group provided no seed that stands before the earlier of the two
\* has taken either of them into its group.
C10_SameKeySameGroupUnlessTaken ==
    ID_is_grouped =>
        \A i, j \in DOMAIN id_all_agents :
            (/\ i < j
             /\ ID_same_key(i, j)
             /\ id_all_agents[i].path \in ID_seeds
             /\ j \in ID_tested_by(i))
            => ID_same_group(i, j)

\* two records that only the key test matches stand in one group, the
\* earlier as its seed, with a third record before them
C10_Witness ==
    /\ id_pc = "grouped"
    /\ \E i, j \in DOMAIN id_all_agents :
        /\ 1 < i /\ i < j
        /\ ID_same_key(i, j)
        /\ ID_four_tests_table[id_all_agents[i].path][id_all_agents[j].path]
           = <<TRUE, FALSE, FALSE, FALSE>>
        /\ id_all_agents[i].path \in ID_seeds
        /\ j \in ID_tested_by(i)
        /\ ID_same_group(i, j)

\* ----------------------------------------------------------------------- C11
\* C11: the suffix rules are mutually consistent: for every stem and every
\* two words w1, w2 of the synonym set, get_semantic_key of the role name
\* with w1 equals get_semantic_key of the role name with w2, with either
\* separator and with or without a numeric prefix.
C11_SuffixRulesConsistent ==
    fn = "get_semantic_key" =>
        \A p \in NumericPrefixes, t \in CallStems, sp \in Separators, w1 \in SynonymSet,
           w2 \in SynonymSet :
            arg1 = RoleName(p, t, sp, w1) => get_semantic_key(RoleName(p, t, sp, w2)) = ret

\* ----------------------------------------------------------------------- C12
EndsWith(s, w) == Len(w) <= Len(s) /\ Drop(s, Len(s) - Len(w)) = w
\* the words a rule of duplicate_patterns strips that the synonym set lacks
BareWords == {TEST, DEBUG, TROUBLESHOOT, OPTIMIZE}

\* C12 as stated: get_semantic_key strips a suffix only when the normalized
\* name ends in a word of the synonym set; every other name comes back as
\* the normalized full name (numeric prefix removed, separators turned into
\* spaces, lowercased, trimmed).
C12_StripsOnlyListedSuffixes ==
    fn = "get_semantic_key" =>
        \/ \E w \in SynonymSet : EndsWith(CleanName(arg1), w)
        \/ ret = CleanName(arg1)

\* C12, amended: the same with the bare words test, debug, troubleshoot and
\* optimize counted among the suffixes: a name whose normalized form ends in
\* none of the words of the synonym set or of these four comes back as the
\* normalized full name.
C12_StripsOnlyPatternSuffixes ==
    fn = "get_semantic_key" =>
        \/ \E w \in SynonymSet \cup BareWords : EndsWith(CleanName(arg1), w)
        \/ ret = CleanName(arg1)

\* get_semantic_key has returned the normalized full name of a name that
\* ends in no suffix and that normalization changes
C12_Witness ==
    /\ fn = "get_semantic_key"
    /\ arg1 = N_07_PYTHON
    /\ ret = N_PYTHON
    /\ ~\E w \in SynonymSet \cup BareWords : EndsWith(CleanName(arg1), w)

\* ----------------------------------------------------------------------- C13
\* one of the names, lowercased and stripped of what is not alphanumeric, is
\* a substring of the other
NameContained(n1, n2) ==
    \/ Contains(AlnumOnly(n1), AlnumOnly(n2))
    \/ Contains(AlnumOnly(n2), AlnumOnly(n1))
ID_name_contained_table ==
    [n1 \in StemsOnDisk |-> [n2 \in StemsOnDisk |-> NameContained(n1, n2)]]
ID_name_similarity_table ==
    [n1 \in StemsOnDisk |-> [n2 \in StemsOnDisk |-> name_similarity(n1, n2)]]
\* the name of the agent at position j contains that of the agent at i, or
\* the other way round
ID_name_contained(i, j) ==
    ID_name_contained_table[id_all_agents[i].name][id_all_agents[j].name]
\* name_similarity of the agents at i and j is at least 0.9 and passes the
\* 0.7 threshold
ID_name_similarity_high(i, j) ==
    LET r == ID_name_similarity_table[id_all_agents[i].name][id_all_agents[j].name]
    IN 10 * r[1] >= 9 * r[2] /\ Exceeds(r, 7, 10)

\* C13 as stated: when one stripped name is a substring of the other,
\* name_similarity is at least 0.9, the pair passes the 0.7 threshold, and
\* the later record is in the group of the earlier one whenever the earlier
\* one is a seed.
C13_SubstringNamesGrouped ==
    ID_is_grouped =>
        \A i, j \in DOMAIN id_all_agents :
            (i < j /\ ID_name_contained(i, j))
            => /\ ID_name_similarity_high(i, j)
               /\ id_all_agents[i].path \in ID_seeds => ID_same_group(i, j)

\* C13, amended: the same, the later record being in the group of the
\* earlier one whenever the earlier one is a seed and no seed before it has
\* taken the later record.
C13_SubstringNamesGroupedUnlessTaken ==
    ID_is_grouped =>
        \A i, j \in DOMAIN id_all_agents :
            (i < j /\ ID_name_contained(i, j))
            => /\ ID_name_similarity_high(i, j)
               /\ (id_all_agents[i].path \in ID_seeds /\ j \in ID_tested_by(i))
                  => ID_same_group(i, j)

\* a record whose stripped name contains that of an earlier seed, and which
\* only the name test matches with it, stands in the seed's group
C13_Witness ==
    /\ id_pc = "grouped"
    /\ \E i, j \in DOMAIN id_all_agents :
        /\ i < j
        /\ ID_name_contained(i, j)
        /\ id_all_agents[i].name # id_all_agents[j].name
        /\ ID_four_tests_table[id_all_agents[i].path][id_all_agents[j].path]
           = <<FALSE, TRUE, FALSE, FALSE>>
        /\ id_all_agents[i].path \in ID_seeds
        /\ j \in ID_tested_by(i)
        /\ ID_same_group(i, j)

\* ----------------------------------------------------------------------- C14
\* the agents at positions i and j are in the same group of the collector
AC_same_group(i, j) ==
    \E g \in DOMAIN ac_groups :
        {ac_all_agents[i].original_path, ac_all_agents[j].original_path}
        \subseteq AC_PathsOf(ac_groups[g])

\* C14: in both groupers every member of a group other than its seed
\* satisfies the duplicate test against the seed; and two records that are
\* the only records, for which the duplicate test holds in neither
\* direction, are in different groups.
C14_MembersMatchSeed ==
    /\ ID_is_grouped =>
        /\ \A g \in DOMAIN id_duplicate_groups : \A k \in DOMAIN id_duplicate_groups[g] :
               id_duplicate_groups[g][k].path # ID_seed(g).path
               => ID_matches(ID_seed(g), id_duplicate_groups[g][k])
        /\ (/\ Len(id_all_agents) = 2
            /\ ~ID_matches(id_all_agents[1], id_all_agents[2])
            /\ ~ID_matches(id_all_agents[2], id_all_agents[1]))
           => ~ID_same_group(1, 2)
    /\ AC_is_grouped =>
        /\ \A g \in DOMAIN ac_groups : \A k \in 2..Len(ac_groups[g]) :
               AC_matches(ac_groups[g][k], ac_groups[g][1])
        /\ (/\ Len(ac_all_agents) = 2
            /\ ~AC_matches(ac_all_agents[1], ac_all_agents[2])
            /\ ~AC_matches(ac_all_agents[2], ac_all_agents[1]))
           => ~AC_same_group(1, 2)

\* python-pro and rust-engineer, the only records, unrelated in name and
\* content, are in different groups of both groupers
C14_Witness ==
    /\ id_pc = "grouped" /\ Len(id_all_agents) = 2
    /\ {id_all_agents[1].name, id_all_agents[2].name} = {STEM1, STEM4}
    /\ ~ID_matches(id_all_agents[1], id_all_agents[2])
    /\ ~ID_matches(id_all_agents[2], id_all_agents[1])
    /\ ~ID_same_group(1, 2)
    /\ ac_pc = "deduplicated" /\ Len(ac_all_agents) = 2
    /\ ~AC_matches(ac_all_agents[1], ac_all_agents[2])
    /\ ~AC_matches(ac_all_agents[2], ac_all_agents[1])
    /\ ~AC_same_group(1, 2)

\* ----------------------------------------------------------------------- C15
\* C15: calculate_quality_score, of either program, returns an integer score
\* of at least 0, returns the same score when called again with the record
\* it has scored, and leaves every field of the record as it was.
C15_ScorePure ==
    /\ fn = "ID.calculate_quality_score" =>
        /\ ret \in Nat
        /\ ID_calculate_quality_score(rec) = ret
        /\ rec = ID_new_agent(Document(doc))
    /\ fn = "AC.calculate_quality_score" =>
        /\ ret \in Nat
        /\ AC_calculate_quality_score(rec) = ret
        /\ rec = AC_new_agent(Document(doc))

\* ----------------------------------------------------------------------- C16
\* the scores of the documents of the shelf, tabulated once
ID_score_table == [d \in Shelf |-> ID_calculate_quality_score(ID_new_agent(Document(d)))]
AC_score_table == [d \in Shelf |-> AC_calculate_quality_score(AC_new_agent(Document(d)))]

\* the documents e and d are alike but for one signal, of which e has less:
\* a shorter text, a shorter description, fewer tools, fewer section lines
\* (structural markers and section keywords) or fewer code fences
OneSignalLess(e, d) ==
    \/ e.length < d.length /\ [e EXCEPT !.length = d.length] = d
    \/ Len(e.description) < Len(d.description) /\ [e EXCEPT !.description = d.description] = d
    \/ e.tools < d.tools /\ [e EXCEPT !.tools = d.tools] = d
    \/ e.sections < d.sections /\ [e EXCEPT !.sections = d.sections] = d
    \/ e.fences < d.fences /\ [e EXCEPT !.fences = d.fences] = d

\* C16: the quality score of either program is monotonic non-decreasing in
\* each signal taken in isolation: a document that has less of one signal
\* than the document scored, and is like it otherwise, has no higher score.
C16_ScoreMonotonic ==
    /\ fn = "ID.calculate_quality_score" =>
        \A e \in Shelf : OneSignalLess(e, doc) => ID_score_table[e] <= ret
    /\ fn = "AC.calculate_quality_score" =>
        \A e \in Shelf : OneSignalLess(e, doc) => AC_score_table[e] <= ret

\* a document of three code fences is scored like the same document with two
\* fences and higher than the same document with one
C16_Witness ==
    /\ fn = "ID.calculate_quality_score"
    /\ doc.fences = 3
    /\ \E e \in Shelf : OneSignalLess(e, doc) /\ e.fences = 2 /\ ID_score_table[e] = ret
    /\ \E e \in Shelf : OneSignalLess(e, doc) /\ e.fences = 1 /\ ID_score_table[e] < ret

\* ----------------------------------------------------------------------- C17
\* the documents e and d are alike but for the description, which has more
\* than 100 characters in d and fewer than 50 in e
LongerDescription(e, d) ==
    /\ Len(d.description) > 100
    /\ Len(e.description) < 50
    /\ [e EXCEPT !.description = d.description] = d

\* C17: of two records alike but for the description, longer than 100
\* characters in one and shorter than 50 in the other, the one of the longer
\* description has the strictly higher quality score, in either program.
C17_LongDescriptionScoresHigher ==
    /\ fn = "ID.calculate_quality_score" =>
        \A e \in Shelf : LongerDescription(e, doc) => ID_score_table[e] < ret
    /\ fn = "AC.calculate_quality_score" =>
        \A e \in Shelf : LongerDescription(e, doc) => AC_score_table[e] < ret

\* ----------------------------------------------------------------------- C18
\* the agent has been given no category: category and subcategory are as the
\* Agent was constructed
AC_unclassified(agent) == agent.category = <<>> /\ agent.subcategory = <<>>

\* C18: a category and subcategory are given to survivors only, and only
\* after duplicate resolution: no agent of the collector has a category
\* before find_duplicates has run, no rejected duplicate ever has one, and
\* the deduplicator's index, whose entries alone carry its categories, is
\* empty until the collection is saved and then lists survivors only.
C18_OnlySurvivorsClassified ==
    /\ ac_pc \in {"new", "collected"} =>
        \A i \in DOMAIN ac_all_agents : AC_unclassified(ac_all_agents[i])
    /\ \A i \in DOMAIN ac_duplicates : AC_unclassified(ac_duplicates[i])
    /\ id_pc # "saved" => id_index = <<>>
    /\ \A k \in DOMAIN id_index :
        \E i \in DOMAIN id_unique_agents : id_unique_agents[i].name = id_index[k].name

\* ----------------------------------------------------------------------- C19
\* the keywords of a taxonomy entry that the text holds
Hits(entry, text) ==
    Cardinality({n \in DOMAIN entry.keywords : Contains(text, entry.keywords[n])})
\* 3 for each keyword found in the name, 2 in the description, 1 in the
\* first 1000 characters of the content
Accumulated(entry, agent) ==
    3 * Hits(entry, Lower(agent.name)) + 2 * Hits(entry, Lower(agent.description))
    + Hits(entry, Lower(Take(agent.content, 1000)))
\* the accumulated scores of the entries of the taxonomy, in its order
Scores(agent) ==
    SubSeq([n \in DOMAIN categories |-> Accumulated(categories[n], agent)],
           1, Len(categories))
\* the entries of the highest score
Leaders(scores) == {n \in DOMAIN scores : \A m \in DOMAIN scores : scores[m] <= scores[n]}
\* the first of them in the order of the taxonomy
FirstLeader(scores) == CHOOSE n \in Leaders(scores) : \A m \in Leaders(scores) : n <= m
\* the pair of entry n, and the default pair when it has scored nothing
PairOf(scores, n) ==
    IF scores[n] = 0 THEN <<SPECIALIZED, GENERAL>>
    ELSE <<categories[n].category, categories[n].subcategory>>
HighestFirst(scores) == PairOf(scores, FirstLeader(scores))

\* C19: categorize_agent returns the pair of the highest accumulated keyword
\* score, the first in the order of the taxonomy among the pairs tied at a
\* maximum that is not zero, and ('specialized', 'general') when every pair
\* scores zero.
C19_HighestScoreFirstInOrder ==
    fn = "categorize_agent" => ret = HighestFirst(Scores(rec))

\* a record named rust-go, without description, ties languages/rust and
\* languages/go at 3 and is filed under languages/rust
C19_Witness ==
    /\ fn = "categorize_agent"
    /\ rec.name = N_RUST_GO
    /\ rec.description = <<>>
    /\ Leaders(Scores(rec)) = {7, 8}
    /\ Scores(rec)[7] = 3
    /\ ret = <<categories[7].category, categories[7].subcategory>>
    /\ ret[2] = D_RUST

\* ----------------------------------------------------------------------- C20
\* body_content: the text of a document with the header block removed,
\* trimmed
body_content(file) == extract_yaml(file)[2]
\* the Agent with the body of its document for content
ID_of_body(agent, body) == [agent EXCEPT !.content = body, !.content_length = Len(body)]
AC_of_body(agent, body) == [agent EXCEPT !.content = body]
\* two ratios are the same number
SameRatio(r1, r2) == r1[1] * r2[2] = r2[1] * r1[2]

\* C20: the signals derived from the content are taken from the body of the
\* document: the classifier, the content similarity and the quality scores
\* return what they return for the text without its header block.
C20_SignalsFromBody ==
    /\ fn = "categorize_agent" =>
        ret = categorize_agent(AC_of_body(rec, body_content(Document(doc))))
    /\ fn = "content_similarity" =>
        SameRatio(ret, content_similarity(body_content(Disk[files[1]]),
                                          body_content(Disk[files[2]])))
    /\ fn = "ID.calculate_quality_score" =>
        ret = ID_calculate_quality_score(ID_of_body(ID_new_agent(Document(doc)),
                                                    body_content(Document(doc))))
    /\ fn = "AC.calculate_quality_score" =>
        ret = AC_calculate_quality_score(AC_of_body(rec, body_content(Document(doc))))

\* ----------------------------------------------------------------------- C21
\* the checks of categorize_simple in the order it makes them: the
\* languages, the tasks, the frontend check and the backend check
QC_declared ==
    [i \in DOMAIN languages |-> [place |-> <<Q_LANGUAGES, languages[i].name>>,
                                 keywords |-> languages[i].keywords]]
    \o [i \in DOMAIN tasks |-> [place |-> <<Q_TASKS, tasks[i].name>>,
                                keywords |-> tasks[i].keywords]]
    \o <<[place |-> <<Q_FRAMEWORKS, Q_FRONTEND>>, keywords |-> frontend_keywords],
         [place |-> <<Q_FRAMEWORKS, Q_BACKEND>>, keywords |-> backend_keywords]>>
\* the checks one of whose keywords is in the lowered name, a blank and the
\* lowered first 500 characters of the content
QC_occurring(name, content) ==
    {i \in DOMAIN QC_declared :
        \E k \in DOMAIN QC_declared[i].keywords :
            Contains(Lower(name) \o <<" ">> \o Lower(Take(content, QuickPrefix)),
                     QC_declared[i].keywords[k])}
C21_FirstOf(hits, place) ==
    IF hits = {} THEN place = <<SPECIALIZED, GENERAL>>
    ELSE \E i \in hits : (\A j \in hits : i <= j) /\ place = QC_declared[i].place
\* C21: categorize_simple returns the place of the first check, in the order
\* languages, tasks, frontend, backend, one of whose keywords occurs in the
\* lowered name and content prefix, whatever the number of keywords of the
\* other checks that occur, and ('specialized', 'general') when none occurs.
C21_FirstMatch ==
    fn = "categorize_simple" => C21_FirstOf(QC_occurring(rec.name, rec.content), ret)
\* categorize_simple has returned the place of a check although a later check
\* has more of its keywords in the text
C21_Witness ==
    /\ fn = "categorize_simple"
    /\ \E i, j \in QC_occurring(rec.name, rec.content) :
           /\ i < j
           /\ ret = QC_declared[i].place
           /\ KeywordHits(QC_declared[i].keywords, QC_combined(rec.name, rec.content))
                < KeywordHits(QC_declared[j].keywords, QC_combined(rec.name, rec.content))

\* ----------------------------------------------------------------------- C22
\* no header block is found in the text: it does not start with '---', or no
\* second '---' closes the block
C22_NoBlock(content) ==
    ~StartsWith(content, DASHES) \/ ~Contains(Drop(content, 3), DASHES)
\* the block between the first two '---' cannot be read as YAML
C22_Unreadable(content) ==
    /\ ~C22_NoBlock(content)
    /\ safe_load(Take(Drop(content, 3), Find(Drop(content, 3), DASHES))).raised
C23_named(file) ==
    /\ "name" \in file.yaml.keys
    /\ file.yaml.name # NONE
    /\ file.yaml.name # <<>>
\* the display name the record of the document is to have
C23_display_name(file) == IF C23_named(file) THEN file.yaml.name ELSE file.stem
\* C23: every record in the record set of the AgentCollector and of the
\* QuickCollector has a display name that is not empty: the name of the
\* header when it has one, else the stem of the file name, also when the
\* header has a name key with an empty or a missing value.
C23_DisplayNameNeverEmpty ==
    /\ \A i \in DOMAIN ac_all_agents :
           /\ ac_all_agents[i].name # <<>>
           /\ ac_all_agents[i].name = C23_display_name(Documents[ac_all_agents[i].original_path])
    /\ \A i \in DOMAIN qc_agents :
           /\ qc_agents[i].name # <<>>
           /\ qc_agents[i].name = C23_display_name(Documents[qc_agents[i].path])

\* ----------------------------------------------------------------------- C24
\* the stages of QuickCollector.run after collect_all has returned
QC_later == {"collected", "deduplicated", "organized", "readme", "done"}
\* the tasks whose process_file returns a record
QC_with_result == {i \in DOMAIN qc_futures : QC_processed[qc_futures[i].path] # <<>>}
\* C24: deduplicate and the stages after it begin only when every task that
\* collect_all submitted has finished and its result, if it has one, is in
\* the list of records: they never see a list that is filled in part.
C24_HardBarrier ==
    qc_pc \in QC_later =>
        /\ \A i \in DOMAIN qc_futures : qc_futures[i].done /\ i \in qc_yielded
        /\ \A i \in QC_with_result :
               \E k \in DOMAIN qc_agents : qc_agents[k] = QC_processed[qc_futures[i].path][1]
        /\ Len(qc_agents) = Cardinality(QC_with_result)
\* deduplicate has run on the results of three tasks, one of them without a
\* result
C24_Witness ==
    /\ qc_pc = "deduplicated"
    /\ Len(qc_futures) = 3
    /\ Len(qc_agents) = 2
    /\ qc_unique # <<>>

\* ----------------------------------------------------------------------- C25
\* the results of the tasks in the order the tasks were submitted in
RECURSIVE QC_in_submission_order(_)
QC_in_submission_order(futures) ==
    IF futures = <<>> THEN <<>>
    ELSE QC_processed[Head(futures).path] \o QC_in_submission_order(Tail(futures))
\* C25: the list of records collect_all leaves holds the results in the
\* order the documents were submitted in, whatever the order the workers
\* finish in.
C25_SubmissionOrder ==
    qc_pc \in QC_later => qc_agents = QC_in_submission_order(qc_futures)

\* ----------------------------------------------------------------------- C30
\* the records process_file returns for the documents QuickCollector.run was
\* given, whatever order they arrive in
QC_returned ==
    {QC_processed[f.path][1] :
        f \in {x \in Range(files_to_process([i \in DOMAIN files |-> Documents[files[i]]])) :
                  QC_processed[x.path] # <<>>}}
\* C30: deduplicate keeps one record for each key (the name and the digest
\* of the first 1000 characters); the keys kept are the keys of the records
\* returned, so the same for every order of arrival, and the record kept
\* for a key is one of the largest records of that key.
C30_LargestOfEachKey ==
    qc_pc \in QC_later \ {"collected"} =>
        /\ \A i, j \in DOMAIN qc_unique : qc_unique[i].key = qc_unique[j].key => i = j
        /\ QC_keys(qc_unique) = {QC_key(a) : a \in QC_returned}
        /\ \A i \in DOMAIN qc_unique :
               /\ qc_unique[i].agent \in QC_returned
               /\ QC_key(qc_unique[i].agent) = qc_unique[i].key
               /\ \A a \in QC_returned :
                      QC_key(a) = qc_unique[i].key => a.size <= qc_unique[i].agent.size
\* deduplicate has replaced the record of a key by a larger one that
\* arrived later, and has kept that one against a record of the same size
\* that arrived later still
C30_Witness ==
    /\ qc_pc = "deduplicated"
    /\ Len(qc_agents) = 3
    /\ QC_key(qc_agents[1]) = QC_key(qc_agents[2])
    /\ QC_key(qc_agents[1]) = QC_key(qc_agents[3])
    /\ qc_agents[1].size < qc_agents[2].size
    /\ qc_agents[3].size = qc_agents[2].size
    /\ qc_agents[3] # qc_agents[2]
    /\ Len(qc_unique) = 1
    /\ qc_unique[1].agent = qc_agents[2]


\* ---------------------------------------------------------------- C26
\* yaml.safe_load raises for the header of the document
C26_malformed(file) ==
    /\ ~read_raises(file)
    /\ StartsWith(read_text(file), DASHES)
    /\ HeaderParts(read_text(file)) # <<>>
    /\ safe_load(HeaderParts(read_text(file))[1]).raised
\* a step of the loader fails for the document: reading or parsing it, or
\* scoring or classifying the agent made from it
C26_fails_ID(file) == C26_malformed(file) \/ ID_raises(file)
C26_fails_AC(file) == C26_malformed(file) \/ AC_raises(file)
C26_fails_QC(file) == C26_malformed(file) \/ read_raises(file)
C26_given == {Documents[files[i]] : i \in DOMAIN files}
C26_paths_QC == {qc_agents[i].path : i \in DOMAIN qc_agents}
\* C26: when a loader has gone through the documents, a document that
\* reading, parsing, scoring or classifying failed for has no record, and
\* every other document the loader takes has one.
C26_FailureConfined ==
    /\ id_pc = "loaded" =>
          \A f \in C26_given :
              /\ C26_fails_ID(f) => f.path \notin PathsOf(id_all_agents)
              /\ ~C26_fails_ID(f) /\ f.ext = EXT_MD => f.path \in PathsOf(id_all_agents)
    /\ ac_pc = "collected" =>
          \A f \in C26_given :
              /\ C26_fails_AC(f) => f.path \notin AC_PathsOf(ac_all_agents)
              /\ ~C26_fails_AC(f) /\ ~AC_skipped_name(f) /\ ~AC_not_an_agent(f)
                    => f.path \in AC_PathsOf(ac_all_agents)
    /\ qc_pc = "collected" =>
          \A f \in C26_given :
              /\ C26_fails_QC(f) => f.path \notin C26_paths_QC
              /\ ~C26_fails_QC(f) /\ ~QC_skipped_name(f) /\ ~QC_not_an_agent(read_text(f))
                    => f.path \in C26_paths_QC
\* the same for the failures the loaders catch themselves (an exception in
\* the try block of the loop body): the document has no record, every other
\* document has one
C26_RaisedConfined ==
    /\ id_pc = "loaded" =>
          \A f \in C26_given :
              f.path \in PathsOf(id_all_agents) <=> ~ID_raises(f) /\ f.ext = EXT_MD
    /\ ac_pc = "collected" =>
          \A f \in C26_given :
              f.path \in AC_PathsOf(ac_all_agents)
                 <=> ~AC_raises(f) /\ ~AC_skipped_name(f) /\ ~AC_not_an_agent(f)
    /\ qc_pc = "collected" =>
          \A f \in C26_given :
              f.path \in C26_paths_QC
                 <=> ~read_raises(f) /\ ~QC_skipped_name(f) /\ ~QC_not_an_agent(read_text(f))
\* the three loaders have gone through a list with a document that raises in
\* each of them before a document that loads in each of them
C26_Reached ==
    /\ id_pc = "loaded" /\ ac_pc = "collected" /\ qc_pc = "collected"
    /\ Len(files) >= 2 /\ files[1] = 13 /\ files[2] = 1
    /\ 1 \in PathsOf(id_all_agents) /\ 1 \in AC_PathsOf(ac_all_agents) /\ 1 \in C26_paths_QC


\* ---------------------------------------------------------------- C27
\* the fetch did not come to a usable index: curl raised or timed out,
\* exited with a status other than 0, or wrote something that is not JSON,
\* not an object or an object without 'total'
C27_no_usable_index ==
    \/ si_fetch.raises # "none"
    \/ si_fetch.returncode # 0
    \/ ~si_fetch.stdout.json
    \/ si_fetch.stdout.kind # "object"
    \/ "total" \notin si_fetch.stdout.keys
C27_names == UNION {Range(task_keywords[n].agents) : n \in DOMAIN task_keywords}
C27_after_load_index == si_pc \in {"ready", "returned", "raised"}
\* load_index has ended (it has no way to end with an exception), and after
\* a fetch that did not come to a usable index agent_index is None and
\* find_agent_in_index returns None for every name
C27_NoIndex ==
    C27_after_load_index /\ C27_no_usable_index =>
        /\ si_agent_index = <<>>
        /\ \A name \in C27_names : find_agent_in_index(si_agent_index, name) = <<>>
\* with agent_index None, auto_install installs nothing
C27_NothingInstalled ==
    si_pc \in {"returned", "raised"} /\ si_agent_index = <<>> =>
        /\ si_result.agents_installed = <<>>
        /\ si_installed_agents = SI_cached(si_cache)
\* C27: load_index ends with agent_index None after a fetch that did not
\* come to a usable index, find_agent_in_index then returns None for every
\* name, and auto_install called in that state returns a result, with no
\* agent installed.
C27_NoIndexHandled ==
    /\ C27_NoIndex
    /\ C27_NothingInstalled
    /\ si_agent_index = <<>> => si_pc # "raised"
\* auto_install has returned without an index, having tried to install
C27_Reached ==
    /\ si_pc = "returned"
    /\ si_agent_index = <<>>
    /\ si_fetch.raises = "TimeoutExpired"
    /\ si_result.message = "No new agents installed"


\* ---------------------------------------------------------------- C28
\* C28: after grouping no two seeds are duplicates: for seeds s1 before s2
\* in input order, singletons included, the duplicate test of s1 against s2
\* (is_duplicate(s1, s2) in IntelligentDeduplicator, similarity_score(s1, s2)
\* above 0.8 in AgentCollector) is false.
C28_SeedsNotDuplicates ==
    /\ ID_is_grouped =>
          \A s1, s2 \in ID_seeds :
              ID_pos(s1) < ID_pos(s2) =>
                  ~ID_matches(id_all_agents[ID_pos(s1)], id_all_agents[ID_pos(s2)])
    /\ AC_is_grouped =>
          \A s1, s2 \in AC_seeds :
              AC_pos(s1) < AC_pos(s2) =>
                  ~AC_matches(ac_all_agents[AC_pos(s1)], ac_all_agents[AC_pos(s2)])
\* the calls the groupers made of two seeds returned false: is_duplicate of
\* the earlier seed as agent1 and the later as agent2, similarity_score of
\* the later seed as the agent and the earlier as the first of its group
C28_AsTested ==
    /\ ID_is_grouped =>
          \A s1, s2 \in ID_seeds :
              ID_pos(s1) < ID_pos(s2) =>
                  ~ID_matches(id_all_agents[ID_pos(s1)], id_all_agents[ID_pos(s2)])
    /\ AC_is_grouped =>
          \A s1, s2 \in AC_seeds :
              AC_pos(s1) < AC_pos(s2) =>
                  ~AC_matches(ac_all_agents[AC_pos(s2)], ac_all_agents[AC_pos(s1)])
\* both groupers have grouped a list into a group of several records and a
\* singleton, so that there are two seeds to compare
C28_Reached ==
    /\ ID_is_grouped /\ AC_is_grouped
    /\ Cardinality(ID_seeds) >= 2 /\ Cardinality(AC_seeds) >= 2
    /\ ID_singles # {}
    /\ id_duplicate_groups # <<>>
    /\ \E g \in DOMAIN ac_groups : Len(ac_groups[g]) > 1
    /\ \E g \in DOMAIN ac_groups : Len(ac_groups[g]) = 1

\* ---------------------------------------------------------------- C29
GR_symmetric == \A p \in gr_dup : <<p[2], p[1]>> \in gr_dup
GR_both_done == gr_done = {"seed_scan", "incremental"}
\* C29: on the same records in the same order and with the same symmetric
\* duplicate test, the seed-scan grouper and the incremental grouper make
\* the same groups: the same partition, the same seeds, the same order of
\* the groups.
C29_SameGroups ==
    GR_both_done /\ GR_symmetric =>
        /\ {Range(gr_seed_scan[g]) : g \in DOMAIN gr_seed_scan}
              = {Range(gr_incremental[g]) : g \in DOMAIN gr_incremental}
        /\ Len(gr_seed_scan) = Len(gr_incremental)
        /\ \A g \in DOMAIN gr_seed_scan :
              /\ gr_seed_scan[g][1] = gr_incremental[g][1]
              /\ Range(gr_seed_scan[g]) = Range(gr_incremental[g])
\* the same without the premise that the test is symmetric
C29_WhateverTheTest ==
    GR_both_done => gr_seed_scan = gr_incremental
\* both groupers have run with a symmetric test for which the third record
\* matches the first two, which do not match each other
C29_Witness ==
    /\ GR_both_done /\ GR_symmetric
    /\ Len(gr_records) = 3
    /\ <<1, 3>> \in gr_dup /\ <<2, 3>> \in gr_dup /\ <<1, 2>> \notin gr_dup
    /\ gr_seed_scan = <<<<1, 3>>, <<2>>>>
\* the generic loops with the tests of the programs as dup give the groups
\* of the programs
C29_dup_ID == {p \in Range(files) \X Range(files) : ID_duplicate_table[p[1]][p[2]]}
C29_dup_AC == {p \in Range(files) \X Range(files) : AC_duplicate_table[p[1]][p[2]]}
C29_paths_ID(groups) == [g \in DOMAIN groups |-> [k \in DOMAIN groups[g] |-> groups[g][k].path]]
C29_paths_AC(groups) ==
    [g \in DOMAIN groups |-> [k \in DOMAIN groups[g] |-> groups[g][k].original_path]]
C29_AsThePrograms ==
    /\ id_pc = "grouped" =>
          C29_paths_ID(id_duplicate_groups)
             = SelectSeq(GR_seed_scan(C29_paths_ID(<<id_all_agents>>)[1], C29_dup_ID, 1, {}, <<>>),
                         LAMBDA group : Len(group) > 1)
    /\ ac_pc = "deduplicated" =>
          C29_paths_AC(ac_groups)
             = GR_incremental(C29_paths_AC(<<ac_all_agents>>)[1], C29_dup_AC, 1, <<>>)

====
